---- MODULE Spec2Model ----
(***************************************************************************)
(* CoreNVR: the recovery controller (internal/recovery) and the retention  *)
(* manager (internal/storage), as state machines.                          *)
(*                                                                         *)
(* Recovery clock: seconds.  0 is the zero time.Time.                      *)
(* Retention clock: hours since 00:00 UTC of day 0; a date partition is    *)
(* named by its day number (the local date of the recorder).               *)
(***************************************************************************)
EXTENDS Integers, Sequences, FiniteSets, TLC

VARIABLES
    \* ---- recovery controller -------------------------------------------
    now,                \* wall clock of the recovery process, seconds
    nextTick,           \* next scheduled firing of the health-check ticker
    pending,            \* cameras checkAllCameras has still to visit
    config,             \* config.RecoveryConfig in force
    lastSegment,        \* camera -> mtime of its newest .ts file (0: none)
    failureDetectedAt,  \* camera -> CameraRecoveryState.failureDetectedAt
    recoveryAttempts,   \* camera -> CameraRecoveryState.recoveryAttempts
    tickLog,            \* camera -> what its latest checkCamera did
    powerCycles,        \* camera -> times smartPlug.PowerCycle was invoked
    episode,            \* camera -> tiers run since it was first seen stale
    capped,             \* camera -> the power-cycle cap was hit in this episode
    \* ---- retention manager ---------------------------------------------
    clock,              \* wall clock of the cleaner, hours UTC
    tzOffset,           \* local time = UTC + tzOffset hours
    storage,            \* config.StorageConfig in force
    partitions,         \* set of <<camera, day>>: the date directories
    otherUsed,          \* bytes of the filesystem not held by partitions
    lastAlertLevel,     \* Cleaner.lastAlertLevel
    lastAlertTime,      \* Cleaner.lastAlertTime (hours; -1: zero time)
    passLog,            \* what the latest cleaner pass did
    scanDay,            \* local day of the latest pass whose removals all
                        \*   succeeded, nothing recorded since (-1: none)
    lastLevel,          \* level the latest MonitorDiskUsage found (-1: none yet)
    \* ---- date folders of one camera -----------------------------------
    wall,               \* local wall clock, seconds
    folders,            \* days whose date folder exists
    newest,             \* day -> newest .ts mtime in its folder (0: none)
    ffmpeg,             \* archive transcoder: "off", "running", "failed"
    wakers,             \* timers of the createNextDayFolder goroutines
    probed,             \* latest answer of GetLastRecordingTime
    lostSegment,        \* a segment found no folder to land in
    \* ---- recordings API of the web UI ---------------------------------
    files,              \* start seconds of the .ts files of one date folder
    segmentDuration,    \* storage.segment_duration in force, seconds
    timeline,           \* latest answer of handleRecordingsTimeline
    listed,             \* duration_seconds values of the latest recordings list
    playlistTarget,     \* target duration of the latest playlist (0: none)
    segmentTime,        \* -segment_time of the archive transcoder (0: not started)
    \* ---- stopping a recorder ------------------------------------------
    sclock,             \* clock of the stop scenario, seconds
    ctxDone,            \* the recorder's context is cancelled
    driver,             \* kind -> where its driver loop stands
    cmdState,           \* kind -> r.recordCmd / r.liveStreamCmd: "nil",
                        \*         "unstarted" (Process nil), "started"
    alive,              \* kind -> its ffmpeg process is running
    signals,            \* kind -> signals sent to its current process
    watcherFired,       \* kind -> the context watcher has killed it
    stopIdx,            \* Stop: 0 not called, 1..2 command in hand, 3 returned
    stopPhase,          \* Stop: "check" the command, or "wait" for it
    interruptAt,        \* Stop: when it sent the interrupt it waits on
    \* ---- locks of the recovery controller ----------------------------
    lclock,             \* seconds since the ticker fired for the pass in hand
    lpasses,            \* passes of checkAllCameras completed
    lpc,                \* where the goroutine of RecoveryManager.Start stands
    lcur,               \* camera whose checkCamera is running ("none": none)
    lpending,           \* cameras the pass has still to visit
    mapReaders,         \* read holds on RecoveryManager.mutex
    stateLocked,        \* camera -> its CameraRecoveryState.mutex is held
    checkStarted,       \* camera -> lclock at which its check began in this pass (-1: not yet)
    \* ---- smart-plug adapter ------------------------------------------
    plugOp,             \* caller -> the SmartPlug method it is in ("none": none)
    plugPc,             \* caller -> where it stands in that method
    plugMutex,          \* holder of SmartPlug.mutex ("none": free)
    plugOn,             \* the outlet is switched on
    plugSeen,           \* caller -> what its latest GetStatus script read from the outlet
    plugCalls,          \* method calls made so far
    \* ---- recording file routes of the web UI -------------------------
    fsFiles,            \* absolute paths of the regular files that exist
    request,            \* the request a client has sent, not yet answered
    response,           \* what the latest request to a recording file route came to
    \* ---- a date partition being deleted while it is indexed ----------
    ixFiles,            \* segment files present in the date partition
    ixDir,              \* the directory of the partition exists
    ixRemover,          \* os.RemoveAll of the cleaner: "idle", "removing", "done"
    ixReader,           \* a list or timeline request: "idle", "stat"
    ixRoute,            \* the handler serving the request in hand ("none": none)
    ixGlobbed,          \* names filepath.Glob returned that are still to be stat'ed
    ixSeen,             \* segments the request in hand has collected
    ixAnswer,           \* the latest answer of a list or timeline request
    ixRequests,         \* requests made so far
    \* ---- retry loops of one recorder ---------------------------------
    maxRetries,         \* camera.MaxRetries in force
    retryCount,         \* kind -> retryCount of its loop
    loopPc,             \* kind -> where its loop stands: "select", "running", "delay", "exited"
    exitWhy,            \* kind -> why its loop returned: "none", "ctx", "max"
    spawns,             \* kind -> transcoders its loop has started
    loopCtxDone,        \* the context of the loops is cancelled
    folderHelpers,      \* createNextDayFolder goroutines of that context running
    \* ---- loading the configuration file ------------------------------
    cfgFile,            \* the file: segment_duration and, per recovery option, whether it is written and with what value
    cfgPc,              \* "file", "rejected", "loaded", "monitoring", "panicked"
    loadedRecovery,     \* the RecoveryConfig that Load returned
    tickerPeriod,       \* period of the ticker of RecoveryManager.Start (0: no ticker)
    \* ---- the process after startup -----------------------------------
    procRecovery,       \* cfg.Recovery as loaded: Enabled, HealthCheckInterval
    procPc,             \* main: "waiting" (on sigChan), "shutdown", "exited"
    recoveryPc,         \* goroutine of RecoveryManager.Start: "off", "spawned", "monitoring", "stopped"
    exitCause,          \* why the process ended: "none", "signal", "systemctl", "panic"
    sigPending,         \* termination signal delivered: "none", "signal" (operator), "systemctl" (tier 2)
    loopsRunning,       \* recorder goroutines of main's WaitGroup still running
    failuresLogged,     \* failures of background components so far
    \* ---- stale detection across days ---------------------------------
    dnow,               \* wall clock of the detection model, seconds
    dFolders,           \* days whose date folder exists
    dNewest,            \* day -> newest segment modification time in its folder, 0: none
    producing,          \* the camera delivers a stream the transcoder writes
    dDetectedAt,        \* state.failureDetectedAt of the camera
    dRecoveryStarted,   \* checkCamera has reached recoverCamera
    dTurn,              \* "tick": the ticker is due, "advance": time passes
    \* ---- generations of a restarted recorder -------------------------
    gclock,             \* clock of the generations model, seconds
    parentDone,         \* main has cancelled the parent context
    curGen,             \* Recorder.Start calls so far; r.ctx, r.cancel belong to this one
    genDone,            \* generation -> its own cancel function was called
    gdriver,            \* generation -> kind -> where its driver loop stands
    galive,             \* generation -> kind -> its transcoder process is alive
    restartPc,          \* Recorder.Restart: "idle", "stop", "pause"
    pauseUntil,         \* instant at which the pause of Restart ends
    \* ---- shutdown of the process -------------------------------------
    shMain,             \* main: "running", "stopping", "waiting", "complete", "crashed"
    shCtxDone,          \* main has cancelled the context
    shLoop,             \* kind -> where the driver loop of the recorder stands
    shCmd,              \* kind -> r.recordCmd / r.liveStreamCmd: "nil", "unstarted", "started"
    shAlive,            \* kind -> the transcoder process is alive
    shStopIdx,          \* index in StopKinds of the command Stop is handling
    shStopPhase,        \* Stop on that command: "check", "signal", "wait"
    shTimer,            \* seconds left on the time.After main is selecting on
    shStartReturned,    \* the Recorder.Start goroutine of main has returned
    shRecovery,         \* recovery manager goroutine: "select", "tier", "gone"
    \* ---- sessions of the web UI --------------------------------------
    anow,               \* clock of the session model, minutes
    timeoutMinutes,     \* webui.authentication.session_timeout as configured
    sessions,           \* session id -> ExpiresAt of its session, NoSession when absent
    issued,             \* session ids handed out so far
    lastSweep,          \* instant of the latest cleanup tick
    reqPc,              \* request -> "idle", "routed", "validated"
    reqRoute,           \* request -> path it asks for
    reqCookie,          \* request -> value of its session_id cookie, NoCookie when none
    retired,            \* session ids a logout destroyed or the clock carried past expiry
    served              \* what the latest finished request was answered with

recoveryVars == <<now, nextTick, pending, config, lastSegment,
                  failureDetectedAt, recoveryAttempts, tickLog, powerCycles,
                  episode, capped>>
retentionVars == <<clock, tzOffset, storage, partitions, otherUsed,
                   lastAlertLevel, lastAlertTime, passLog, scanDay, lastLevel>>
folderVars == <<wall, folders, newest, ffmpeg, wakers, probed, lostSegment>>
timelineVars == <<files, segmentDuration, timeline, listed, playlistTarget,
                  segmentTime>>
stopVars == <<sclock, ctxDone, driver, cmdState, alive, signals, watcherFired,
              stopIdx, stopPhase, interruptAt>>
lockVars == <<lclock, lpasses, lpc, lcur, lpending, mapReaders, stateLocked, checkStarted>>
plugVars == <<plugOp, plugPc, plugMutex, plugOn, plugSeen, plugCalls>>
routeVars == <<fsFiles, request, response>>
indexVars == <<ixFiles, ixDir, ixRemover, ixReader, ixRoute, ixGlobbed, ixSeen, ixAnswer, ixRequests>>
retryVars == <<maxRetries, retryCount, loopPc, exitWhy, spawns, loopCtxDone,
              folderHelpers>>
configVars == <<cfgFile, cfgPc, loadedRecovery, tickerPeriod>>
procVars == <<procRecovery, procPc, recoveryPc, exitCause, sigPending, loopsRunning, failuresLogged>>
detectVars == <<dnow, dFolders, dNewest, producing, dDetectedAt, dRecoveryStarted, dTurn>>
genVars == <<gclock, parentDone, curGen, genDone, gdriver, galive, restartPc, pauseUntil>>
shutVars == <<shMain, shCtxDone, shLoop, shCmd, shAlive, shStopIdx, shStopPhase, shTimer, shStartReturned, shRecovery>>
authVars == <<anow, timeoutMinutes, sessions, issued, lastSweep, reqPc, reqRoute, reqCookie, retired, served>>
vars == <<recoveryVars, retentionVars, folderVars, timelineVars, stopVars, lockVars, plugVars, routeVars, indexVars, retryVars, configVars, procVars, detectVars, genVars, shutVars, authVars>>

\* What the steps of one component leave alone.
notRecoveryVars == <<retentionVars, folderVars, timelineVars, stopVars, lockVars, plugVars, routeVars, indexVars, retryVars, configVars, procVars, detectVars, genVars, shutVars, authVars>>
notRetentionVars == <<recoveryVars, folderVars, timelineVars, stopVars, lockVars, plugVars, routeVars, indexVars, retryVars, configVars, procVars, detectVars, genVars, shutVars, authVars>>
notFolderVars == <<recoveryVars, retentionVars, timelineVars, stopVars, lockVars, plugVars, routeVars, indexVars, retryVars, configVars, procVars, detectVars, genVars, shutVars, authVars>>
notTimelineVars == <<recoveryVars, retentionVars, folderVars, stopVars, lockVars, plugVars, routeVars, indexVars, retryVars, configVars, procVars, detectVars, genVars, shutVars, authVars>>
notStopVars == <<recoveryVars, retentionVars, folderVars, timelineVars, lockVars, plugVars, routeVars, indexVars, retryVars, configVars, procVars, detectVars, genVars, shutVars, authVars>>
notLockVars == <<recoveryVars, retentionVars, folderVars, timelineVars, stopVars, plugVars, routeVars, indexVars, retryVars, configVars, procVars, detectVars, genVars, shutVars, authVars>>
notPlugVars == <<recoveryVars, retentionVars, folderVars, timelineVars, stopVars, lockVars, routeVars, indexVars, retryVars, configVars, procVars, detectVars, genVars, shutVars, authVars>>
notRouteVars == <<recoveryVars, retentionVars, folderVars, timelineVars, stopVars, lockVars, plugVars, indexVars, retryVars, configVars, procVars, detectVars, genVars, shutVars, authVars>>
notIndexVars == <<recoveryVars, retentionVars, folderVars, timelineVars, stopVars, lockVars, plugVars, routeVars, retryVars, configVars, procVars, detectVars, genVars, shutVars, authVars>>
notRetryVars == <<recoveryVars, retentionVars, folderVars, timelineVars, stopVars, lockVars, plugVars, routeVars, indexVars, configVars, procVars, detectVars, genVars, shutVars, authVars>>
notConfigVars == <<recoveryVars, retentionVars, folderVars, timelineVars, stopVars, lockVars, plugVars, routeVars, indexVars, retryVars, procVars, detectVars, genVars, shutVars, authVars>>
notProcVars == <<recoveryVars, retentionVars, folderVars, timelineVars, stopVars, lockVars, plugVars, routeVars, indexVars, retryVars, configVars, detectVars, genVars, shutVars, authVars>>
notDetectVars == <<recoveryVars, retentionVars, folderVars, timelineVars, stopVars, lockVars, plugVars, routeVars, indexVars, retryVars, configVars, procVars, genVars, shutVars, authVars>>
notGenVars == <<recoveryVars, retentionVars, folderVars, timelineVars, stopVars, lockVars, plugVars, routeVars, indexVars, retryVars, configVars, procVars, detectVars, shutVars, authVars>>
notShutVars == <<recoveryVars, retentionVars, folderVars, timelineVars, stopVars, lockVars, plugVars, routeVars, indexVars, retryVars, configVars, procVars, detectVars, genVars, authVars>>
notAuthVars == <<recoveryVars, retentionVars, folderVars, timelineVars, stopVars, lockVars, plugVars, routeVars, indexVars, retryVars, configVars, procVars, detectVars, genVars, shutVars>>

\* Cameras with a date-partition tree under the storage base path.
Cameras == {"cam1", "cam2"}

\* Cameras whose recorder is registered with the recovery manager.
RecoveryCameras == {"cam1"}

(***************************************************************************)
(*                         RECOVERY CONTROLLER                             *)
(***************************************************************************)

\* Last instant of the recovery clock the model explores.
MaxTime == 1000

ZeroTime == 0

\* time.Sleep(2 * time.Second) in Recorder.Restart
RestartQuiescence == 2

\* 30*time.Minute, the window recoverCamera hands to countRecentAttempts
PowerCycleWindow == 1800

\* The documented defaults of config.RecoveryConfig and SmartPlugConfig.
DefaultRecoveryConfig ==
    [StaleThreshold            |-> 600,
     VerificationDelay         |-> 120,
     HealthCheckInterval       |-> 60,
     MaxPowerCyclesPer30Min    |-> 2,
     ServiceRestartTimeout     |-> 30,
     PowerCycleRecoveryTimeout |-> 60,
     PowerOffDelay             |-> 10]

\* A deployment tuned for a fast reaction and a single power cycle.
TightRecoveryConfig ==
    [DefaultRecoveryConfig EXCEPT !.StaleThreshold = 120,
                                  !.VerificationDelay = 60,
                                  !.MaxPowerCyclesPer30Min = 1]

\* A recovery section that leaves max_power_cycles_per_30min out: config.Load
\* applies no defaults, so the field is 0.
NoCapRecoveryConfig ==
    [TightRecoveryConfig EXCEPT !.MaxPowerCyclesPer30Min = 0]

RecoveryConfigs == {DefaultRecoveryConfig, TightRecoveryConfig,
                    NoCapRecoveryConfig}

Tiers == <<"goroutine_restart", "service_restart", "power_cycle">>

NoLog == [seen |-> ZeroTime, branch |-> "none", tier |-> "none", alerts |-> <<>>]

\* hasAttempted looking at the latest attempt only
hasAttempted_LatestOnly(attempts, action) ==
    attempts # <<>> /\ attempts[Len(attempts)].Action = action

\* RecoveryManager.hasAttempted
hasAttempted(attempts, action) ==
    \E i \in DOMAIN attempts : attempts[i].Action = action

\* RecoveryManager.countRecentAttempts, called at time t
countRecentAttempts(attempts, action, window, t) ==
    Cardinality({i \in DOMAIN attempts :
                    /\ attempts[i].Action = action
                    /\ attempts[i].Timestamp > t - window})

\* recoverCamera asking for level 2 before level 1
recoverCamera_Level2First(attempts, t, cfg) ==
    IF countRecentAttempts(attempts, "power_cycle", PowerCycleWindow, t)
           >= cfg.MaxPowerCyclesPer30Min
    THEN "max_power_cycles"
    ELSE IF ~hasAttempted(attempts, "service_restart") THEN "service_restart"
    ELSE IF ~hasAttempted(attempts, "goroutine_restart") THEN "goroutine_restart"
    ELSE IF ~hasAttempted(attempts, "power_cycle") THEN "power_cycle"
    ELSE "exhausted"

\* recoverCamera stopping only once the cap is exceeded
recoverCamera_CapExceeded(attempts, t, cfg) ==
    IF countRecentAttempts(attempts, "power_cycle", PowerCycleWindow, t)
           > cfg.MaxPowerCyclesPer30Min
    THEN "max_power_cycles"
    ELSE IF ~hasAttempted(attempts, "goroutine_restart") THEN "goroutine_restart"
    ELSE IF ~hasAttempted(attempts, "service_restart") THEN "service_restart"
    ELSE IF ~hasAttempted(attempts, "power_cycle") THEN "power_cycle"
    ELSE "exhausted"

\* RecoveryManager.recoverCamera: what it decides to do at time t
recoverCamera(attempts, t, cfg) ==
    IF countRecentAttempts(attempts, "power_cycle", PowerCycleWindow, t)
           >= cfg.MaxPowerCyclesPer30Min
    THEN "max_power_cycles"
    ELSE IF ~hasAttempted(attempts, "goroutine_restart") THEN "goroutine_restart"
    ELSE IF ~hasAttempted(attempts, "service_restart") THEN "service_restart"
    ELSE IF ~hasAttempted(attempts, "power_cycle") THEN "power_cycle"
    ELSE "exhausted"

\* checkCamera without the verification delay
checkBranch_NoVerification(last, detectedAt, t, cfg) ==
    IF last = ZeroTime THEN "no_recordings"
    ELSE IF t - last < cfg.StaleThreshold
         THEN (IF detectedAt # ZeroTime THEN "recovered" ELSE "healthy")
    ELSE IF detectedAt = ZeroTime THEN "detected"
    ELSE "recover"

\* checkCamera that never notices a recovery
checkBranch_NoReset(last, detectedAt, t, cfg) ==
    IF last = ZeroTime THEN "no_recordings"
    ELSE IF t - last < cfg.StaleThreshold THEN "healthy"
    ELSE IF detectedAt = ZeroTime THEN "detected"
    ELSE IF t - detectedAt < cfg.VerificationDelay THEN "verifying"
    ELSE "recover"

\* RecoveryManager.checkCamera: the branch it takes at time t
checkBranch(last, detectedAt, t, cfg) ==
    IF last = ZeroTime THEN "no_recordings"
    ELSE IF t - last < cfg.StaleThreshold
         THEN (IF detectedAt # ZeroTime THEN "recovered" ELSE "healthy")
    ELSE IF detectedAt = ZeroTime THEN "detected"
    ELSE IF t - detectedAt < cfg.VerificationDelay THEN "verifying"
    ELSE "recover"

\* The attempt every tier appends before it acts.
Attempt(t, action) == [Timestamp |-> t, Action |-> action, Success |-> FALSE]

RecoveryInit ==
    /\ now = 0
    /\ config \in RecoveryConfigs
    /\ nextTick = config.HealthCheckInterval
    /\ pending = {}
    /\ lastSegment = [c \in RecoveryCameras |-> ZeroTime]
    /\ failureDetectedAt = [c \in RecoveryCameras |-> ZeroTime]
    /\ recoveryAttempts = [c \in RecoveryCameras |-> <<>>]
    /\ tickLog = [c \in RecoveryCameras |-> NoLog]
    /\ powerCycles = [c \in RecoveryCameras |-> {}]
    /\ episode = [c \in RecoveryCameras |-> <<>>]
    /\ capped = [c \in RecoveryCameras |-> FALSE]

\* The archive transcoder of camera c writes to its newest segment.
WriteSegment(c) ==
    /\ now # ZeroTime
    /\ lastSegment[c] # now
    /\ lastSegment' = [lastSegment EXCEPT ![c] = now]
    /\ UNCHANGED <<now, nextTick, pending, config, failureDetectedAt,
                   recoveryAttempts, tickLog, powerCycles, episode, capped>>

\* RecoveryManager.Start: the ticker fires and checkAllCameras begins.  A
\* tick that came due while the previous pass was still sleeping is
\* delivered as soon as that pass returns.
TickFire ==
    LET t == IF now >= nextTick THEN now ELSE nextTick
        k == ((t - nextTick) \div config.HealthCheckInterval) + 1
    IN  /\ pending = {}
        /\ t <= MaxTime
        /\ now' = t
        /\ nextTick' = nextTick + k * config.HealthCheckInterval
        /\ pending' = RecoveryCameras
        /\ UNCHANGED <<config, lastSegment, failureDetectedAt,
                       recoveryAttempts, tickLog, powerCycles, episode, capped>>

\* A healthy observation: the probe found a segment younger than
\* stale_threshold.
Healthy(last, t, cfg) == last # ZeroTime /\ t - last < cfg.StaleThreshold

\* What a checkCamera leaves in the log: the probe's answer, the branch
\* taken, the tier executed and the alerts sent, in order.
Log(last, branch, tier, alerts) ==
    [seen |-> last, branch |-> branch, tier |-> tier, alerts |-> alerts]

\* RecoveryManager.restartCameraGoroutine: append the attempt, rec.Restart
\* (which never returns an error), then sleep service_restart_timeout.
restartCameraGoroutine(c, last) ==
    /\ recoveryAttempts' = [recoveryAttempts EXCEPT
                              ![c] = Append(@, Attempt(now, "goroutine_restart"))]
    /\ now' = now + RestartQuiescence + config.ServiceRestartTimeout
    /\ tickLog' = [tickLog EXCEPT ![c] =
                      Log(last, "recover", "goroutine_restart",
                          <<"recovery_started">>)]
    /\ episode' = [episode EXCEPT ![c] = Append(@, "goroutine_restart")]
    /\ pending' = pending \ {c}
    /\ UNCHANGED <<nextTick, failureDetectedAt, powerCycles, capped>>

\* RecoveryManager.restartService: append the attempt, run
\* "systemctl restart corenvr".  When the command fails the controller
\* carries on; when it works the process manager replaces the process, and
\* the new process starts from NewRecoveryManager's empty states and a
\* fresh ticker.
restartService(c, last, systemctlOk) ==
    /\ tickLog' = [tickLog EXCEPT ![c] =
                      Log(last, "recover", "service_restart", <<"escalating">>)]
    /\ episode' = [episode EXCEPT ![c] = Append(@, "service_restart")]
    /\ IF systemctlOk
       THEN /\ recoveryAttempts' = [d \in RecoveryCameras |-> <<>>]
            /\ failureDetectedAt' = [d \in RecoveryCameras |-> ZeroTime]
            /\ capped' = [d \in RecoveryCameras |-> FALSE]
            /\ pending' = {}
            /\ nextTick' = now + config.HealthCheckInterval
       ELSE /\ recoveryAttempts' = [recoveryAttempts EXCEPT
                                     ![c] = Append(@, Attempt(now, "service_restart"))]
            /\ pending' = pending \ {c}
            /\ UNCHANGED <<nextTick, failureDetectedAt, capped>>
    /\ UNCHANGED <<now, powerCycles>>

\* powerCycleCamera that records the attempt only once the plug has worked
powerCycleCamera_RecordOnSuccess(c, last, plugOk) ==
    /\ recoveryAttempts' = [recoveryAttempts EXCEPT
                              ![c] = IF plugOk
                                     THEN Append(@, Attempt(now, "power_cycle"))
                                     ELSE @]
    /\ powerCycles' = [powerCycles EXCEPT ![c] = @ \cup {now}]
    /\ now' = IF plugOk
              THEN now + config.PowerOffDelay + config.PowerCycleRecoveryTimeout
              ELSE now
    /\ tickLog' = [tickLog EXCEPT ![c] =
                      Log(last, "recover", "power_cycle",
                          IF plugOk
                          THEN <<"power_cycle_initiated">>
                          ELSE <<"power_cycle_initiated", "power_cycle_failed">>)]
    /\ episode' = [episode EXCEPT ![c] = Append(@, "power_cycle")]
    /\ pending' = pending \ {c}
    /\ UNCHANGED <<nextTick, failureDetectedAt, capped>>

\* RecoveryManager.powerCycleCamera: append the attempt, cycle the plug;
\* a failing plug is alerted and returns at once, a working one is followed
\* by the sleep of power_cycle_recovery_timeout.
powerCycleCamera(c, last, plugOk) ==
    /\ recoveryAttempts' = [recoveryAttempts EXCEPT
                              ![c] = Append(@, Attempt(now, "power_cycle"))]
    /\ powerCycles' = [powerCycles EXCEPT ![c] = @ \cup {now}]
    /\ now' = IF plugOk
              THEN now + config.PowerOffDelay + config.PowerCycleRecoveryTimeout
              ELSE now
    /\ tickLog' = [tickLog EXCEPT ![c] =
                      Log(last, "recover", "power_cycle",
                          IF plugOk
                          THEN <<"power_cycle_initiated">>
                          ELSE <<"power_cycle_initiated", "power_cycle_failed">>)]
    /\ episode' = [episode EXCEPT ![c] = Append(@, "power_cycle")]
    /\ pending' = pending \ {c}
    /\ UNCHANGED <<nextTick, failureDetectedAt, capped>>

\* A checkCamera that executes no tier: it may alert and may change the
\* detection timestamp and the attempts.
NoTier(c, last, branch, alerts, detectedAt, attempts) ==
    /\ tickLog' = [tickLog EXCEPT ![c] = Log(last, branch, "none", alerts)]
    /\ failureDetectedAt' = [failureDetectedAt EXCEPT ![c] = detectedAt]
    /\ recoveryAttempts' = [recoveryAttempts EXCEPT ![c] = attempts]
    /\ episode' = [episode EXCEPT
                      ![c] = IF Healthy(last, now, config) THEN <<>> ELSE @]
    /\ capped' = [capped EXCEPT
                     ![c] = IF Healthy(last, now, config) THEN FALSE
                            ELSE @ \/ alerts = <<"max_power_cycles">>]
    /\ pending' = pending \ {c}
    /\ UNCHANGED <<now, nextTick, powerCycles>>

\* RecoveryManager.checkCamera for camera c, with recoverCamera and the tier
\* it runs.  probeOk = FALSE: GetLastRecordingTime found no segment.
checkCamera(c, probeOk, systemctlOk, plugOk) ==
    LET last   == IF probeOk THEN lastSegment[c] ELSE ZeroTime
        branch == checkBranch(last, failureDetectedAt[c], now, config)
        tier   == recoverCamera(recoveryAttempts[c], now, config)
    IN  /\ c \in pending
        /\ UNCHANGED <<config, lastSegment>>
        /\ CASE branch = "no_recordings" ->
                  NoTier(c, last, branch, <<>>,
                         failureDetectedAt[c], recoveryAttempts[c])
             [] branch = "healthy" ->
                  NoTier(c, last, branch, <<>>,
                         failureDetectedAt[c], recoveryAttempts[c])
             [] branch = "recovered" ->
                  NoTier(c, last, branch, <<"recovered">>, ZeroTime, <<>>)
             [] branch = "detected" ->
                  NoTier(c, last, branch, <<>>, now, recoveryAttempts[c])
             [] branch = "verifying" ->
                  NoTier(c, last, branch, <<>>,
                         failureDetectedAt[c], recoveryAttempts[c])
             [] branch = "recover" /\ tier = "max_power_cycles" ->
                  NoTier(c, last, branch, <<"max_power_cycles">>,
                         failureDetectedAt[c], recoveryAttempts[c])
             [] branch = "recover" /\ tier = "exhausted" ->
                  NoTier(c, last, branch, <<"all_failed">>,
                         failureDetectedAt[c], recoveryAttempts[c])
             [] branch = "recover" /\ tier = "goroutine_restart" ->
                  restartCameraGoroutine(c, last)
             [] branch = "recover" /\ tier = "service_restart" ->
                  restartService(c, last, systemctlOk)
             [] branch = "recover" /\ tier = "power_cycle" ->
                  powerCycleCamera(c, last, plugOk)

CheckCameraStep ==
    /\ \E c \in RecoveryCameras, probeOk \in BOOLEAN, systemctlOk \in BOOLEAN,
          plugOk \in BOOLEAN :
           checkCamera(c, probeOk, systemctlOk, plugOk)
    /\ UNCHANGED notRecoveryVars

WriteSegmentStep ==
    /\ \E c \in RecoveryCameras : WriteSegment(c)
    /\ UNCHANGED notRecoveryVars

TickStep == TickFire /\ UNCHANGED notRecoveryVars

RecoveryNext ==
    \/ TickStep
    \/ CheckCameraStep
    \/ WriteSegmentStep

(***************************************************************************)
(*                          RETENTION MANAGER                              *)
(***************************************************************************)

\* Size of the filesystem holding the storage base path, in disk units.
TotalBytes == 40

\* First and last instant of the retention clock, and its granularity.
FirstClock == 123
MaxClock == 150
ClockStep == 12

\* Removals (os.RemoveAll) that may fail in one pass.
MaxFailures == 1

\* DiskAlert levels
DiskAlertNone == 0
DiskAlertWarning == 1
DiskAlertCritical == 2
DiskAlertEmergency == 3

\* The zero time.Time of Cleaner.lastAlertTime.
NeverAlerted == -1

TzOffsets == {-5, 0, 10}
RetentionChoices == {0, 1, 2}
OtherUsedChoices == {0, 24, 27, 36}

\* time.Now().Format("2006-01-02"): the local date, as a day number.
Today == (clock + tzOffset) \div 24

\* time.Parse("2006-01-02", dirName): midnight UTC of the named day.
dirDate(p) == p[2] * 24

\* Cleaner.getDirSize: every date partition holds one disk unit.
getDirSize(p) == 1

PartitionBytes(parts) == Cardinality(parts)

\* stat.Bavail * stat.Bsize
Available(parts) == TotalBytes - otherUsed - PartitionBytes(parts)

\* MonitorDiskUsage: the alert level of 100 * used / total
AlertLevel(avail) ==
    LET used == TotalBytes - avail
    IN  IF 100 * used >= 95 * TotalBytes THEN DiskAlertEmergency
        ELSE IF 100 * used >= 90 * TotalBytes THEN DiskAlertCritical
        ELSE IF 100 * used >= 80 * TotalBytes THEN DiskAlertWarning
        ELSE DiskAlertNone

\* an alert on every pass that finds a non-zero level
AlertDue_EveryPass(level) ==
    level > lastAlertLevel \/ level > DiskAlertNone

\* MonitorDiskUsage: whether this pass sends a disk alert
AlertDue(level) ==
    \/ level > lastAlertLevel
    \/ /\ level > DiskAlertNone
       /\ (lastAlertTime = NeverAlerted \/ clock - lastAlertTime > 1)

\* Cleaner.cleanup: dirDate.Before(time.Now().AddDate(0, 0, -RetentionDays))
cleanupEligible(p) == dirDate(p) < clock - storage.RetentionDays * 24

\* cleanup whose walk ends at the first directory it removes
cleanup_StopsAfterFirst(parts, failing) ==
    LET gone == {p \in parts : cleanupEligible(p) /\ p \notin failing}
    IN  IF gone = {} THEN parts
        ELSE parts \ {CHOOSE p \in gone : \A q \in gone : p[2] <= q[2]}

\* cleanup whose walk is given up at the first removal that fails
cleanup_AbortsOnFailure(parts, failing) ==
    LET before(p, q) == \/ p[1] = "cam1" /\ q[1] = "cam2"
                        \/ p[1] = q[1] /\ p[2] < q[2]
        bad == {p \in parts : cleanupEligible(p) /\ p \in failing}
    IN  parts \ {p \in parts : /\ cleanupEligible(p)
                               /\ p \notin failing
                               /\ \A b \in bad : before(p, b)}

\* Cleaner.cleanup on the partitions parts; the removals of failing fail.
\* The result is the partitions left.
cleanup(parts, failing) ==
    parts \ {p \in parts : cleanupEligible(p) /\ p \notin failing}

\* Cleaner.cleanup: the removals it attempted that failed
cleanupFailed(parts, failing) ==
    {p \in parts : cleanupEligible(p) /\ p \in failing}

\* Cleaner.emergencyCleanup: dir.date.After(time.Now().AddDate(0, 0, -2))
emergencySkips(p) == dirDate(p) > clock - 2 * 24

\* Cleaner.emergencyCleanup: currentFree >= targetFree, 10% of the total,
\* with other bytes of the filesystem held by other data.
floorReachedAt(parts, other) ==
    10 * (TotalBytes - other - PartitionBytes(parts)) >= TotalBytes

floorReached(parts) == floorReachedAt(parts, otherUsed)

\* Walk order of two date directories: by camera name.
CamBefore(a, b) == a = "cam1" /\ b = "cam2"

\* the directories left in the order of the walk: by camera, then by date
OldestFirst_WalkOrder(parts) ==
    LET RECURSIVE order(_)
        order(S) ==
            IF S = {} THEN <<>>
            ELSE LET first == CHOOSE p \in S :
                                \A q \in S \ {p} :
                                    \/ CamBefore(p[1], q[1])
                                    \/ p[1] = q[1] /\ p[2] < q[2]
                 IN  <<first>> \o order(S \ {first})
    IN  order(parts)

\* Cleaner.emergencyCleanup: the exchange sort by date over the walk order
OldestFirst(parts) ==
    LET RECURSIVE order(_)
        order(S) ==
            IF S = {} THEN <<>>
            ELSE LET first == CHOOSE p \in S :
                                \A q \in S \ {p} :
                                    \/ p[2] < q[2]
                                    \/ p[2] = q[2] /\ CamBefore(p[1], q[1])
                 IN  <<first>> \o order(S \ {first})
    IN  order(parts)

\* Cleaner.emergencyCleanup: the deletion loop over dirs from index i on,
\* its Statfs finding other bytes held by other data.  The result is the
\* partitions left and the removals that failed.
RECURSIVE emergencyLoop(_, _, _, _, _, _)
emergencyLoop(dirs, i, parts, failing, failed, other) ==
    IF i > Len(dirs) \/ floorReachedAt(parts, other)
    THEN [left |-> parts, failed |-> failed]
    ELSE IF emergencySkips(dirs[i])
         THEN emergencyLoop(dirs, i + 1, parts, failing, failed, other)
         ELSE IF dirs[i] \in failing
              THEN emergencyLoop(dirs, i + 1, parts, failing,
                                 failed \cup {dirs[i]}, other)
              ELSE emergencyLoop(dirs, i + 1, parts \ {dirs[i]}, failing,
                                 failed, other)

emergencyCleanup(parts, failing, other) ==
    emergencyLoop(OldestFirst(parts), 1, parts, failing, {}, other)

NoPass == [kind |-> "none"]

NoScan == -1

\* No MonitorDiskUsage has run yet.
NoLevel == -1

\* Contiguous recordings of every camera from day first up to day last.
Seeded(first, last) == {<<c, d>> : c \in Cameras, d \in first..last}

RetentionInit ==
    /\ clock = FirstClock
    /\ tzOffset \in TzOffsets
    /\ storage \in [RetentionDays : RetentionChoices]
    /\ otherUsed \in OtherUsedChoices
    /\ \E first \in 0..(Today + 1) : partitions = Seeded(first, Today)
    /\ Available(partitions) >= 0
    /\ lastAlertLevel = DiskAlertNone
    /\ lastAlertTime = NeverAlerted
    /\ passLog = NoPass
    /\ scanDay = NoScan
    /\ lastLevel = NoLevel

\* Time passes.
AdvanceClock ==
    /\ clock + ClockStep <= MaxClock
    /\ clock' = clock + ClockStep
    /\ passLog' = NoPass
    /\ UNCHANGED <<tzOffset, storage, partitions, otherUsed, lastAlertLevel,
                   lastAlertTime, scanDay, lastLevel>>

\* Recorder.record of camera c: today's partition exists and its archive
\* transcoder fills it, while the disk has room.
Record(c) ==
    /\ <<c, Today>> \notin partitions
    /\ Available(partitions) >= getDirSize(<<c, Today>>)
    /\ partitions' = partitions \cup {<<c, Today>>}
    /\ passLog' = NoPass
    /\ scanDay' = NoScan
    /\ UNCHANGED <<clock, tzOffset, storage, otherUsed, lastAlertLevel,
                   lastAlertTime, lastLevel>>

\* One round of Cleaner.Start: MonitorDiskUsage (alert, then emergency
\* prune at emergency level or cleanup at critical level), then cleanup when
\* retention is enabled.  The removals of the partitions in failing fail.
\* Between the GetDiskUsage of MonitorDiskUsage and the Statfs of the
\* emergency prune, other users of the filesystem may have removed data:
\* the prune finds usedAtPrune bytes held by other data.
CleanerPass(failing, usedAtPrune) ==
    LET level     == AlertLevel(Available(partitions))
        alerted   == AlertDue(level)
        emergency == level = DiskAlertEmergency
        critical  == level = DiskAlertCritical
        scheduled == storage.RetentionDays > 0
        pruned    == emergencyCleanup(partitions, failing, usedAtPrune)
        afterMon  == IF emergency THEN pruned.left
                     ELSE IF critical THEN cleanup(partitions, failing)
                     ELSE partitions
        afterPass == IF scheduled THEN cleanup(afterMon, failing) ELSE afterMon
    IN  /\ usedAtPrune <= otherUsed
        /\ ~emergency => usedAtPrune = otherUsed
        /\ otherUsed' = usedAtPrune
        /\ lastLevel' = level
        /\ lastAlertLevel' = IF alerted THEN level ELSE lastAlertLevel
        /\ lastAlertTime' = IF alerted THEN clock ELSE lastAlertTime
        /\ partitions' = afterPass
        /\ passLog' =
             [kind             |-> "pass",
              today            |-> Today,
              level            |-> level,
              alerted          |-> alerted,
              emergencyRan     |-> emergency,
              emergencyDeleted |-> IF emergency THEN partitions \ afterMon ELSE {},
              emergencyFailed  |-> IF emergency THEN pruned.failed ELSE {},
              emergencyLeft    |-> afterMon,
              cleanupRan       |-> critical \/ scheduled,
              cleanupDeleted   |-> IF emergency THEN afterMon \ afterPass
                                   ELSE partitions \ afterPass,
              cleanupFailed    |->
                  (IF critical THEN cleanupFailed(partitions, failing) ELSE {})
                  \cup
                  (IF scheduled THEN cleanupFailed(afterMon, failing) ELSE {})]
        /\ scanDay' = IF passLog'.emergencyFailed = {} /\ passLog'.cleanupFailed = {}
                      THEN Today ELSE NoScan
        /\ UNCHANGED <<clock, tzOffset, storage>>

AdvanceClockStep == AdvanceClock /\ UNCHANGED notRetentionVars

RecordStep ==
    /\ \E c \in Cameras : Record(c)
    /\ UNCHANGED notRetentionVars

CleanerPassStep ==
    /\ \E failing \in SUBSET partitions, usedAtPrune \in OtherUsedChoices :
          /\ Cardinality(failing) <= MaxFailures
          /\ CleanerPass(failing, usedAtPrune)
    /\ UNCHANGED notRetentionVars

RetentionNext ==
    \/ AdvanceClockStep
    \/ RecordStep
    \/ CleanerPassStep

(***************************************************************************)
(*                 DATE FOLDERS OF ONE CAMERA (internal/recorder)          *)
(*                                                                         *)
(* Local wall clock in seconds; the day of instant t is t \div 86400.  The *)
(* instants explored lie around one local midnight.                        *)
(***************************************************************************)

\* 24 * time.Hour
SecondsPerDay == 86400

\* nextMidnight.Add(-1 * time.Minute) in createNextDayFolder
WakeLead == 60

\* time.Sleep(2 * time.Minute) after the folder was made
WakeRest == 120

\* Granularity of the folder clock, and the instants explored: from
\* FolderLead seconds before the midnight that ends day FirstDay to
\* FolderTail seconds after it.
FolderStep == 30
FirstDay == 1
FolderLead == 150
FolderTail == 90

Midnight == (FirstDay + 1) * SecondsPerDay

DayOf(t) == t \div SecondsPerDay

FolderDays == 0..(FirstDay + 3)

NoProbe == [at |-> 0, result |-> 0]

\* createNextDayFolder: the instant its timer is set for, computed at now_
wakeTime(now_) ==
    LET nextMidnight  == (DayOf(now_) + 1) * SecondsPerDay
        sleepDuration == (nextMidnight - WakeLead) - now_
    IN  IF sleepDuration < 0
        THEN (DayOf(now_) + 2) * SecondsPerDay - WakeLead
        ELSE nextMidnight - WakeLead

\* Recorder.GetLastRecordingTime at instant t: dirs are the date folders
\* that exist, mtimes[d] the newest .ts modification time in folder d (0:
\* the folder holds no segment).  os.ReadDir fails only on a missing folder.
GetLastRecordingTime(dirs, mtimes, t) ==
    LET today     == DayOf(t)
        yesterday == DayOf(t - SecondsPerDay)
    IN  IF today \in dirs THEN mtimes[today]
        ELSE IF yesterday \in dirs THEN mtimes[yesterday]
        ELSE 0

\* A recorder about to start, in the minutes before midnight; the folders
\* of earlier days that exist hold a segment written in their evening.
FolderInit ==
    /\ wall \in {Midnight - FolderLead, Midnight - FolderLead + 2 * FolderStep,
                 Midnight - FolderStep}
    /\ \E old \in SUBSET {FirstDay - 1, FirstDay} :
          /\ folders = old
          /\ newest = [d \in FolderDays |->
                          IF d \in old THEN (d + 1) * SecondsPerDay - 2 * FolderLead
                          ELSE 0]
    /\ ffmpeg = "off"
    /\ wakers = {}
    /\ probed = NoProbe
    /\ lostSegment = FALSE

\* Recorder.record up to the start of the transcoder: today's folder is
\* made, a createNextDayFolder goroutine is started, ffmpeg runs.
record ==
    /\ ffmpeg # "running"
    /\ folders' = folders \cup {DayOf(wall)}
    /\ wakers' = wakers \cup {wakeTime(wall)}
    /\ ffmpeg' = "running"
    /\ UNCHANGED <<wall, newest, probed, lostSegment>>

\* Recorder.Restart: Stop cancels the recorder's context, which ends the
\* transcoder and the createNextDayFolder goroutines waiting on it; Start
\* then runs record under a new context.
Restart ==
    /\ ffmpeg = "running"
    /\ folders' = folders \cup {DayOf(wall)}
    /\ wakers' = {wakeTime(wall)}
    /\ ffmpeg' = "running"
    /\ UNCHANGED <<wall, newest, probed, lostSegment>>

\* createNextDayFolder: a timer fires; tomorrow's folder is made, and after
\* the rest the loop sets its next timer.
createNextDayFolder(w) ==
    /\ w \in wakers
    /\ w <= wall
    /\ folders' = folders \cup {DayOf(wall + SecondsPerDay)}
    /\ wakers' = (wakers \ {w}) \cup {wakeTime(wall + WakeRest)}
    /\ UNCHANGED <<wall, newest, ffmpeg, probed, lostSegment>>

\* The archive transcoder writes to the segment file of the current
\* instant, whose path strftime expands to today's folder.  ffmpeg does not
\* make the folder: when it is missing the segment is lost and ffmpeg exits.
ffmpegWrite ==
    /\ ffmpeg = "running"
    /\ IF DayOf(wall) \in folders
       THEN /\ newest' = [newest EXCEPT ![DayOf(wall)] = wall]
            /\ UNCHANGED <<ffmpeg, lostSegment>>
       ELSE /\ ffmpeg' = "failed"
            /\ lostSegment' = TRUE
            /\ UNCHANGED newest
    /\ UNCHANGED <<wall, folders, wakers, probed>>

\* A caller (health monitor, recovery manager) probes the newest segment.
probe ==
    /\ probed' = [at |-> wall,
                  result |-> GetLastRecordingTime(folders, newest, wall)]
    /\ UNCHANGED <<wall, folders, newest, ffmpeg, wakers, lostSegment>>

\* Time passes; timers that are due fire first.
passTime ==
    /\ wall + FolderStep <= Midnight + FolderTail
    /\ \A w \in wakers : w > wall
    /\ wall' = wall + FolderStep
    /\ UNCHANGED <<folders, newest, ffmpeg, wakers, probed, lostSegment>>

recordStep == record /\ UNCHANGED notFolderVars

RestartStep == Restart /\ UNCHANGED notFolderVars

createNextDayFolderStep ==
    /\ \E w \in wakers : createNextDayFolder(w)
    /\ UNCHANGED notFolderVars

ffmpegWriteStep == ffmpegWrite /\ UNCHANGED notFolderVars

probeStep == probe /\ UNCHANGED notFolderVars

passTimeStep == passTime /\ UNCHANGED notFolderVars

FolderNext ==
    \/ recordStep
    \/ RestartStep
    \/ createNextDayFolderStep
    \/ ffmpegWriteStep
    \/ probeStep
    \/ passTimeStep

(***************************************************************************)
(*            RECORDINGS API OF THE WEB UI (internal/webui/server.go)      *)
(*                                                                         *)
(* One (camera, date) folder.  A segment file HH-MM-SS.ts is the second of *)
(* the day its name spells; "23:59:59" is second 86399.                    *)
(***************************************************************************)

\* 30 * time.Minute, the length handleRecordingsTimeline gives a segment
TimelineSegmentSeconds == 1800

\* Duration: 1800 in handleRecordingsList
ListDurationSeconds == 1800

\* #EXT-X-TARGETDURATION:1800 in handleRecordingPlaylist
PlaylistTargetSeconds == 1800

\* "-segment_time", "1800" in Recorder.record
TranscoderSegmentSeconds == 1800

\* 2 * time.Minute, the shortest interval that is not a gap
GapThresholdSeconds == 120

\* totalMinutes := 24 * 60
MinutesPerDay == 1440

\* time.Date(..., 23, 59, 59, 0, time.UTC)
DayEnd == 86399

\* Most segment files in the folder explored.
MaxSegments == 3

\* Start seconds the segment files of the folder are drawn from: 00:00:00,
\* 00:02:00, 00:02:01, 08:00:00, 08:20:00, 08:32:00, 08:45:00, 10:00:00,
\* 10:30:00, 23:27:59, 23:28:00, 23:30:00, 23:45:00.
SegmentStarts == {0, 120, 121, 28800, 30000, 30720, 31500, 36000, 37800,
                  84479, 84480, 84600, 85500}

\* storage.segment_duration values Config.Validate accepts (>= 60)
SegmentDurations == {60, 900, 1800, 3600}

NoTimeline == [served |-> FALSE]

\* endTime.Format without the cap to 23:59:59
segmentEnd_NoCap(start) == (start + TimelineSegmentSeconds) % SecondsPerDay

\* The end handleRecordingsTimeline reports for a segment starting at start:
\* start + 30 min, capped to 23:59:59 when that falls on the next day.
segmentEnd(start) ==
    IF DayOf(start + TimelineSegmentSeconds) # DayOf(start)
    THEN DayEnd
    ELSE start + TimelineSegmentSeconds

\* a gap test that also reports intervals of exactly two minutes
isGap_AtLeast(d) == d >= GapThresholdSeconds

\* gapDuration > 2*time.Minute
isGap(d) == d > GapThresholdSeconds

\* int(d.Minutes())
durationMins(d) == d \div 60

Gap(from, to) ==
    [StartTime |-> from, EndTime |-> to, DurationMins |-> durationMins(to - from)]

RECURSIVE sortByStart(_)
\* The segments of the folder sorted by start time.
sortByStart(starts) ==
    IF starts = {} THEN <<>>
    ELSE LET first == CHOOSE s \in starts : \A u \in starts : s <= u
         IN  <<[StartTime |-> first, EndTime |-> segmentEnd(first)]>>
                 \o sortByStart(starts \ {first})

\* gap detection that forgets the end of the day
detectGaps_NoEndGap(segments) ==
    IF segments = <<>>
    THEN <<[StartTime |-> 0, EndTime |-> DayEnd, DurationMins |-> MinutesPerDay]>>
    ELSE LET n == Len(segments)
             startGap == IF isGap(segments[1].StartTime - 0)
                         THEN <<Gap(0, segments[1].StartTime)>> ELSE <<>>
             between[i \in 0..(n - 1)] ==
                 IF i = 0 THEN <<>>
                 ELSE between[i - 1] \o
                      (IF isGap(segments[i + 1].StartTime - segments[i].EndTime)
                       THEN <<Gap(segments[i].EndTime, segments[i + 1].StartTime)>>
                       ELSE <<>>)
         IN  startGap \o between[n - 1]

\* The gaps handleRecordingsTimeline derives from the sorted segments.
detectGaps(segments) ==
    IF segments = <<>>
    THEN <<[StartTime |-> 0, EndTime |-> DayEnd, DurationMins |-> MinutesPerDay]>>
    ELSE LET n == Len(segments)
             startGap == IF isGap(segments[1].StartTime - 0)
                         THEN <<Gap(0, segments[1].StartTime)>> ELSE <<>>
             between[i \in 0..(n - 1)] ==
                 IF i = 0 THEN <<>>
                 ELSE between[i - 1] \o
                      (IF isGap(segments[i + 1].StartTime - segments[i].EndTime)
                       THEN <<Gap(segments[i].EndTime, segments[i + 1].StartTime)>>
                       ELSE <<>>)
             endGap == IF isGap(DayEnd - segments[n].EndTime)
                       THEN <<Gap(segments[n].EndTime, DayEnd)>> ELSE <<>>
         IN  startGap \o between[n - 1] \o endGap

RECURSIVE totalGapMinutes(_)
totalGapMinutes(gaps) ==
    IF gaps = <<>> THEN 0
    ELSE gaps[1].DurationMins + totalGapMinutes(Tail(gaps))

\* recordedMinutes as handleRecordingsTimeline computes it
recordedMinutes(segments, gaps) ==
    IF Len(segments) > 0 THEN MinutesPerDay - totalGapMinutes(gaps) ELSE 0

\* coverage_percent as printed with one decimal, in tenths of a percent
coverageTenths(recorded) ==
    (2 * 1000 * recorded + MinutesPerDay) \div (2 * MinutesPerDay)

\* A date folder holding up to MaxSegments segment files, under some valid
\* storage.segment_duration; nothing has been requested yet.
TimelineInit ==
    /\ files \in {f \in SUBSET SegmentStarts : Cardinality(f) <= MaxSegments}
    /\ segmentDuration \in SegmentDurations
    /\ timeline = NoTimeline
    /\ listed = {}
    /\ playlistTarget = 0
    /\ segmentTime = 0

\* Server.handleRecordingsTimeline for the folder
handleRecordingsTimeline ==
    /\ LET segments == sortByStart(files)
           gaps     == detectGaps(segments)
           recorded == recordedMinutes(segments, gaps)
       IN  timeline' = [served          |-> TRUE,
                        segments        |-> segments,
                        gaps            |-> gaps,
                        recordedMinutes |-> recorded,
                        coverageTenths  |-> coverageTenths(recorded)]
    /\ UNCHANGED <<files, segmentDuration, listed, playlistTarget, segmentTime>>

\* Server.handleRecordingsList for the folder: the duration_seconds of the
\* recordings it lists
handleRecordingsList ==
    /\ files # {}
    /\ listed' = {ListDurationSeconds}
    /\ UNCHANGED <<files, segmentDuration, timeline, playlistTarget, segmentTime>>

\* Server.handleRecordingPlaylist for one file of the folder
handleRecordingPlaylist ==
    /\ files # {}
    /\ playlistTarget' = PlaylistTargetSeconds
    /\ UNCHANGED <<files, segmentDuration, timeline, listed, segmentTime>>

\* Recorder.record: the -segment_time handed to the archive transcoder
recordArgs ==
    /\ segmentTime' = TranscoderSegmentSeconds
    /\ UNCHANGED <<files, segmentDuration, timeline, listed, playlistTarget>>

handleRecordingsTimelineStep ==
    handleRecordingsTimeline /\ UNCHANGED notTimelineVars

handleRecordingsListStep == handleRecordingsList /\ UNCHANGED notTimelineVars

handleRecordingPlaylistStep ==
    handleRecordingPlaylist /\ UNCHANGED notTimelineVars

recordArgsStep == recordArgs /\ UNCHANGED notTimelineVars

TimelineNext ==
    \/ handleRecordingsTimelineStep
    \/ handleRecordingsListStep
    \/ handleRecordingPlaylistStep
    \/ recordArgsStep

(***************************************************************************)
(*          STOPPING A RECORDER (internal/recorder: Start, Stop)           *)
(*                                                                         *)
(* One recorder with its two driver loops (startRecording, startLiveStream)*)
(* and the ffmpeg process each of them runs.  exec.CommandContext starts,  *)
(* with the process, a watcher that calls Process.Kill once the context is *)
(* done.  Clock in seconds.                                                *)
(***************************************************************************)

\* time.After(5 * time.Second) in Stop
StopGraceSeconds == 5

\* Last instant of the stop clock the model explores.
MaxStopClock == 6

\* The order in which Stop handles the two commands.
StopKinds == <<"record", "live">>

Kinds == {"record", "live"}

\* Stop has not been called / has returned.
StopIdle == 0
StopReturned == 3

Signal(sig, at) == [sig |-> sig, at |-> at]

\* Recorder.Start has launched the two driver loops; no command built yet.
StopInit ==
    /\ sclock = 0
    /\ ctxDone = FALSE
    /\ driver = [k \in Kinds |-> "select"]
    /\ cmdState = [k \in Kinds |-> "nil"]
    /\ alive = [k \in Kinds |-> FALSE]
    /\ signals = [k \in Kinds |-> <<>>]
    /\ watcherFired = [k \in Kinds |-> FALSE]
    /\ stopIdx = StopIdle
    /\ stopPhase = "check"
    /\ interruptAt = 0

\* startRecording / startLiveStream at the top of the loop: return when the
\* context is done, otherwise go on to record / liveStream.
driverSelect(k) ==
    /\ driver[k] = "select"
    /\ driver' = [driver EXCEPT ![k] = IF ctxDone THEN "gone" ELSE "build"]
    /\ UNCHANGED <<sclock, ctxDone, cmdState, alive, signals, watcherFired,
                   stopIdx, stopPhase, interruptAt>>

\* record / liveStream: r.recordCmd = exec.CommandContext(ctx, ...), a
\* command whose Process is still nil.
driverBuild(k) ==
    /\ driver[k] = "build"
    /\ cmdState' = [cmdState EXCEPT ![k] = "unstarted"]
    /\ driver' = [driver EXCEPT ![k] = "start"]
    /\ UNCHANGED <<sclock, ctxDone, alive, signals, watcherFired,
                   stopIdx, stopPhase, interruptAt>>

\* cmd.Start: it returns the context's error when the context is already
\* done, and the loop, on that error, finds the context done and returns.
driverStartCheck(k) ==
    /\ driver[k] = "start"
    /\ driver' = [driver EXCEPT ![k] = IF ctxDone THEN "gone" ELSE "fork"]
    /\ UNCHANGED <<sclock, ctxDone, cmdState, alive, signals, watcherFired,
                   stopIdx, stopPhase, interruptAt>>

\* cmd.Start: the process is created, cmd.Process is set, the context
\* watcher is started; the loop then blocks in cmd.Wait.
driverFork(k) ==
    /\ driver[k] = "fork"
    /\ alive' = [alive EXCEPT ![k] = TRUE]
    /\ cmdState' = [cmdState EXCEPT ![k] = "started"]
    /\ signals' = [signals EXCEPT ![k] = <<>>]
    /\ watcherFired' = [watcherFired EXCEPT ![k] = FALSE]
    /\ driver' = [driver EXCEPT ![k] = "wait"]
    /\ UNCHANGED <<sclock, ctxDone, stopIdx, stopPhase, interruptAt>>

\* cmd.Wait returns in the loop: the process has exited; the loop goes
\* round (after the retry delay when Wait returned an error).
driverWaitReturns(k) ==
    /\ driver[k] = "wait"
    /\ ~alive[k]
    /\ driver' = [driver EXCEPT ![k] = "select"]
    /\ UNCHANGED <<sclock, ctxDone, cmdState, alive, signals, watcherFired,
                   stopIdx, stopPhase, interruptAt>>

\* The ffmpeg process exits: on a signal it received, or by itself (stream
\* error, camera unreachable).
procExit(k) ==
    /\ alive[k]
    /\ alive' = [alive EXCEPT ![k] = FALSE]
    /\ UNCHANGED <<sclock, ctxDone, driver, cmdState, signals, watcherFired,
                   stopIdx, stopPhase, interruptAt>>

\* The watcher of exec.CommandContext: the context is done, Process.Kill.
ctxKill(k) ==
    /\ ctxDone
    /\ alive[k]
    /\ ~watcherFired[k]
    /\ signals' = [signals EXCEPT ![k] = Append(@, Signal("kill", sclock))]
    /\ watcherFired' = [watcherFired EXCEPT ![k] = TRUE]
    /\ UNCHANGED <<sclock, ctxDone, driver, cmdState, alive,
                   stopIdx, stopPhase, interruptAt>>

\* main on a shutdown signal: cancel() of the parent context, before it
\* calls Stop on every recorder.
mainCancel ==
    /\ ~ctxDone
    /\ stopIdx = StopIdle
    /\ ctxDone' = TRUE
    /\ UNCHANGED <<sclock, driver, cmdState, alive, signals, watcherFired,
                   stopIdx, stopPhase, interruptAt>>

\* Recorder.Stop, first statement: r.cancel().
StopCancel ==
    /\ stopIdx = StopIdle
    /\ ctxDone' = TRUE
    /\ stopIdx' = 1
    /\ stopPhase' = "check"
    /\ UNCHANGED <<sclock, driver, cmdState, alive, signals, watcherFired,
                   interruptAt>>

\* What Stop does once it is through with a command: the next one, or return.
StopAdvance ==
    /\ stopIdx' = stopIdx + 1
    /\ stopPhase' = "check"

\* Recorder.Stop on one command: skip it when the command or its Process is
\* nil, otherwise Signal(os.Interrupt) (which reaches a live process only)
\* and wait.
StopSignal(k) ==
    /\ stopIdx \in 1..2
    /\ k = StopKinds[stopIdx]
    /\ stopPhase = "check"
    /\ IF cmdState[k] = "started"
       THEN /\ signals' = [signals EXCEPT ![k] =
                              IF alive[k]
                              THEN Append(@, Signal("interrupt", sclock))
                              ELSE @]
            /\ stopPhase' = "wait"
            /\ interruptAt' = sclock
            /\ UNCHANGED stopIdx
       ELSE /\ StopAdvance
            /\ UNCHANGED <<signals, interruptAt>>
    /\ UNCHANGED <<sclock, ctxDone, driver, cmdState, alive, watcherFired>>

\* Recorder.Stop, case <-done: the Wait of its helper goroutine returned,
\* which it does once the process has exited.
StopDone(k) ==
    /\ stopIdx \in 1..2
    /\ k = StopKinds[stopIdx]
    /\ stopPhase = "wait"
    /\ ~alive[k]
    /\ StopAdvance
    /\ UNCHANGED <<sclock, ctxDone, driver, cmdState, alive, signals,
                   watcherFired, interruptAt>>

\* Recorder.Stop, case <-time.After(5 * time.Second): Process.Kill, and on
\* to the next command without waiting.
StopTimeout(k) ==
    /\ stopIdx \in 1..2
    /\ k = StopKinds[stopIdx]
    /\ stopPhase = "wait"
    /\ sclock >= interruptAt + StopGraceSeconds
    /\ signals' = [signals EXCEPT ![k] =
                      IF alive[k] THEN Append(@, Signal("kill", sclock)) ELSE @]
    /\ StopAdvance
    /\ UNCHANGED <<sclock, ctxDone, driver, cmdState, alive, watcherFired,
                   interruptAt>>

\* A second passes.  The kernel ends a process that was sent SIGKILL, and
\* the runtime wakes a context watcher, well within a second.
stopTick ==
    /\ sclock < MaxStopClock
    /\ \A k \in Kinds :
          alive[k] =>
             /\ ~(ctxDone /\ ~watcherFired[k])
             /\ \A i \in DOMAIN signals[k] : signals[k][i].sig # "kill"
    /\ sclock' = sclock + 1
    /\ UNCHANGED <<ctxDone, driver, cmdState, alive, signals, watcherFired,
                   stopIdx, stopPhase, interruptAt>>

driverSelectStep == (\E k \in Kinds : driverSelect(k)) /\ UNCHANGED notStopVars

driverBuildStep == (\E k \in Kinds : driverBuild(k)) /\ UNCHANGED notStopVars

driverStartCheckStep ==
    (\E k \in Kinds : driverStartCheck(k)) /\ UNCHANGED notStopVars

driverForkStep == (\E k \in Kinds : driverFork(k)) /\ UNCHANGED notStopVars

driverWaitReturnsStep ==
    (\E k \in Kinds : driverWaitReturns(k)) /\ UNCHANGED notStopVars

procExitStep == (\E k \in Kinds : procExit(k)) /\ UNCHANGED notStopVars

ctxKillStep == (\E k \in Kinds : ctxKill(k)) /\ UNCHANGED notStopVars

mainCancelStep == mainCancel /\ UNCHANGED notStopVars

StopCancelStep == StopCancel /\ UNCHANGED notStopVars

StopSignalStep == (\E k \in Kinds : StopSignal(k)) /\ UNCHANGED notStopVars

StopDoneStep == (\E k \in Kinds : StopDone(k)) /\ UNCHANGED notStopVars

StopTimeoutStep == (\E k \in Kinds : StopTimeout(k)) /\ UNCHANGED notStopVars

stopTickStep == stopTick /\ UNCHANGED notStopVars

StopNext ==
    \/ driverSelectStep
    \/ driverBuildStep
    \/ driverStartCheckStep
    \/ driverForkStep
    \/ driverWaitReturnsStep
    \/ procExitStep
    \/ ctxKillStep
    \/ mainCancelStep
    \/ StopCancelStep
    \/ StopSignalStep
    \/ StopDoneStep
    \/ StopTimeoutStep
    \/ stopTickStep

(***************************************************************************)
(*      LOCKS OF THE RECOVERY CONTROLLER (internal/recovery: manager)      *)
(*                                                                         *)
(* The one goroutine of RecoveryManager.Start walking the cameras on a     *)
(* tick, with the locks it takes and the places where it is suspended.     *)
(* What checkCamera decides for a camera is an input here; the recovery    *)
(* controller above models that decision.                                  *)
(***************************************************************************)

LockCameras == {"cam1", "cam2", "cam3"}

\* Passes of checkAllCameras explored.
MaxLockPasses == 2

NotChecked == -1

\* What checkCamera can come to for one camera: a return without recovery,
\* or one of the tiers.
Verdicts == {"none", "goroutine_restart", "service_restart", "power_cycle"}

\* The places where the goroutine is suspended inside a tier.
Suspended ==
    {"restart_pause", "restart_timeout", "systemctl", "plug", "plug_timeout"}

LockInit ==
    /\ lclock = 0
    /\ lpasses = 0
    /\ lpc = "idle"
    /\ lcur = "none"
    /\ lpending = {}
    /\ mapReaders = 0
    /\ stateLocked = [c \in LockCameras |-> FALSE]
    /\ checkStarted = [c \in LockCameras |-> NotChecked]

\* RecoveryManager.Start, case <-ticker.C, and checkAllCameras up to its
\* loop: rm.mutex.RLock(), deferred RUnlock.
checkAllCamerasEnter ==
    /\ lpc = "idle"
    /\ lpasses < MaxLockPasses
    /\ mapReaders' = mapReaders + 1
    /\ lpending' = LockCameras
    /\ checkStarted' = [c \in LockCameras |-> NotChecked]
    /\ lclock' = 0
    /\ lpc' = "loop"
    /\ UNCHANGED <<lpasses, lcur, stateLocked>>

\* The range over rm.recorders hands out a camera (in no fixed order);
\* checkCamera takes its state mutex, deferred Unlock.
checkCameraEnter(c) ==
    /\ lpc = "loop"
    /\ c \in lpending
    /\ ~stateLocked[c]
    /\ stateLocked' = [stateLocked EXCEPT ![c] = TRUE]
    /\ checkStarted' = [checkStarted EXCEPT ![c] = lclock]
    /\ lcur' = c
    /\ lpc' = "check"
    /\ UNCHANGED <<lclock, lpasses, lpending, mapReaders>>

\* checkCamera decides: return, or recoverCamera with one of the tiers.
\* restartCameraGoroutine calls Recorder.Restart, which sleeps 2 s between
\* Stop and Start; restartService runs systemctl and waits for it;
\* powerCycleCamera calls SmartPlug.PowerCycle and waits for its script.
checkCameraDecide(v) ==
    /\ lpc = "check"
    /\ lpc' = CASE v = "none"              -> "return"
                [] v = "goroutine_restart" -> "restart_pause"
                [] v = "service_restart"   -> "systemctl"
                [] v = "power_cycle"       -> "plug"
    /\ UNCHANGED <<lclock, lpasses, lcur, lpending, mapReaders, stateLocked,
                   checkStarted>>

\* Recorder.Restart: time.Sleep(2 * time.Second) is over.
RestartPauseOver ==
    /\ lpc = "restart_pause"
    /\ lclock' = lclock + RestartQuiescence
    /\ lpc' = "restart_timeout"
    /\ UNCHANGED <<lpasses, lcur, lpending, mapReaders, stateLocked,
                   checkStarted>>

\* restartCameraGoroutine: time.Sleep(ServiceRestartTimeout) is over.
restartTimeoutOver ==
    /\ lpc = "restart_timeout"
    /\ lclock' = lclock + DefaultRecoveryConfig.ServiceRestartTimeout
    /\ lpc' = "return"
    /\ UNCHANGED <<lpasses, lcur, lpending, mapReaders, stateLocked,
                   checkStarted>>

\* restartService: cmd.Run of systemctl has returned (with an error, the
\* process being still there).
systemctlOver ==
    /\ lpc = "systemctl"
    /\ lpc' = "return"
    /\ UNCHANGED <<lclock, lpasses, lcur, lpending, mapReaders, stateLocked,
                   checkStarted>>

\* powerCycleCamera: SmartPlug.PowerCycle has returned after its off delay;
\* on an error the tier returns, otherwise it sleeps.
plugOver(ok) ==
    /\ lpc = "plug"
    /\ lclock' = lclock + DefaultRecoveryConfig.PowerOffDelay
    /\ lpc' = IF ok THEN "plug_timeout" ELSE "return"
    /\ UNCHANGED <<lpasses, lcur, lpending, mapReaders, stateLocked,
                   checkStarted>>

\* powerCycleCamera: time.Sleep(PowerCycleRecoveryTimeout) is over.
plugTimeoutOver ==
    /\ lpc = "plug_timeout"
    /\ lclock' = lclock + DefaultRecoveryConfig.PowerCycleRecoveryTimeout
    /\ lpc' = "return"
    /\ UNCHANGED <<lpasses, lcur, lpending, mapReaders, stateLocked,
                   checkStarted>>

\* checkCamera returns: the deferred state.mutex.Unlock runs.
checkCameraReturn ==
    /\ lpc = "return"
    /\ stateLocked' = [stateLocked EXCEPT ![lcur] = FALSE]
    /\ lpending' = lpending \ {lcur}
    /\ lcur' = "none"
    /\ lpc' = "loop"
    /\ UNCHANGED <<lclock, lpasses, mapReaders, checkStarted>>

\* checkAllCameras returns: the deferred rm.mutex.RUnlock runs.
checkAllCamerasReturn ==
    /\ lpc = "loop"
    /\ lpending = {}
    /\ mapReaders' = mapReaders - 1
    /\ lpasses' = lpasses + 1
    /\ lpc' = "idle"
    /\ UNCHANGED <<lclock, lcur, lpending, stateLocked, checkStarted>>

checkAllCamerasEnterStep == checkAllCamerasEnter /\ UNCHANGED notLockVars

checkCameraEnterStep ==
    (\E c \in LockCameras : checkCameraEnter(c)) /\ UNCHANGED notLockVars

checkCameraDecideStep ==
    (\E v \in Verdicts : checkCameraDecide(v)) /\ UNCHANGED notLockVars

RestartPauseOverStep == RestartPauseOver /\ UNCHANGED notLockVars

restartTimeoutOverStep == restartTimeoutOver /\ UNCHANGED notLockVars

systemctlOverStep == systemctlOver /\ UNCHANGED notLockVars

plugOverStep == (\E ok \in BOOLEAN : plugOver(ok)) /\ UNCHANGED notLockVars

plugTimeoutOverStep == plugTimeoutOver /\ UNCHANGED notLockVars

checkCameraReturnStep == checkCameraReturn /\ UNCHANGED notLockVars

checkAllCamerasReturnStep == checkAllCamerasReturn /\ UNCHANGED notLockVars

LockNext ==
    \/ checkAllCamerasEnterStep
    \/ checkCameraEnterStep
    \/ checkCameraDecideStep
    \/ RestartPauseOverStep
    \/ restartTimeoutOverStep
    \/ systemctlOverStep
    \/ plugOverStep
    \/ plugTimeoutOverStep
    \/ checkCameraReturnStep
    \/ checkAllCamerasReturnStep

(***************************************************************************)
(*          SMART-PLUG ADAPTER (internal/recovery: SmartPlug)              *)
(*                                                                         *)
(* Goroutines calling the methods of one SmartPlug.  Every method runs a   *)
(* python3 script that talks to the outlet; the script of PowerCycle       *)
(* switches off, sleeps power_off_delay, and switches on.                  *)
(***************************************************************************)

PlugCallers == {"g1", "g2"}

PlugOps == {"PowerCycle", "TurnOn", "TurnOff", "GetStatus"}

\* Method calls explored.
MaxPlugCalls == 3

\* The methods that take sp.mutex.
PlugLocking == {"PowerCycle", "TurnOn", "TurnOff"}

\* Where a caller's script is running.
PlugTalking == {"script", "cycle_off", "cycle_delay", "cycle_on"}

PlugInit ==
    /\ plugOp = [g \in PlugCallers |-> "none"]
    /\ plugPc = [g \in PlugCallers |-> "idle"]
    /\ plugMutex = "none"
    /\ plugOn = TRUE
    /\ plugSeen = [g \in PlugCallers |-> "none"]
    /\ plugCalls = 0

\* A goroutine enters a method: PowerCycle, TurnOn and TurnOff go for
\* sp.mutex.Lock(); GetStatus builds and starts its script at once.
plugCall(g, op) ==
    /\ plugPc[g] = "idle"
    /\ plugCalls < MaxPlugCalls
    /\ plugCalls' = plugCalls + 1
    /\ plugOp' = [plugOp EXCEPT ![g] = op]
    /\ plugPc' = [plugPc EXCEPT ![g] = IF op \in PlugLocking THEN "lock"
                                       ELSE "script"]
    /\ UNCHANGED <<plugMutex, plugOn, plugSeen>>

\* sp.mutex.Lock() succeeds; the method starts its script.
plugLock(g) ==
    /\ plugPc[g] = "lock"
    /\ plugMutex = "none"
    /\ plugMutex' = g
    /\ plugPc' = [plugPc EXCEPT ![g] = IF plugOp[g] = "PowerCycle"
                                       THEN "cycle_off" ELSE "script"]
    /\ UNCHANGED <<plugOp, plugOn, plugSeen, plugCalls>>

\* The script of PowerCycle: plug.turn_off(), then time.sleep.
PowerCycleOff(g) ==
    /\ plugPc[g] = "cycle_off"
    /\ plugOn' = FALSE
    /\ plugPc' = [plugPc EXCEPT ![g] = "cycle_delay"]
    /\ UNCHANGED <<plugOp, plugMutex, plugSeen, plugCalls>>

\* The script of PowerCycle: the sleep is over.
PowerCycleDelay(g) ==
    /\ plugPc[g] = "cycle_delay"
    /\ plugPc' = [plugPc EXCEPT ![g] = "cycle_on"]
    /\ UNCHANGED <<plugOp, plugMutex, plugOn, plugSeen, plugCalls>>

\* The script of PowerCycle: plug.turn_on(); the script ends.
PowerCycleOn(g) ==
    /\ plugPc[g] = "cycle_on"
    /\ plugOn' = TRUE
    /\ plugPc' = [plugPc EXCEPT ![g] = "return"]
    /\ UNCHANGED <<plugOp, plugMutex, plugSeen, plugCalls>>

\* The script of TurnOn, TurnOff or GetStatus talks to the outlet and ends.
plugScript(g) ==
    /\ plugPc[g] = "script"
    /\ plugOn' = CASE plugOp[g] = "TurnOn"  -> TRUE
                   [] plugOp[g] = "TurnOff" -> FALSE
                   [] OTHER                 -> plugOn
    /\ plugSeen' = [plugSeen EXCEPT ![g] =
                       IF plugOp[g] = "GetStatus"
                       THEN (IF plugOn THEN "on" ELSE "off")
                       ELSE @]
    /\ plugPc' = [plugPc EXCEPT ![g] = "return"]
    /\ UNCHANGED <<plugOp, plugMutex, plugCalls>>

\* The method returns; the deferred sp.mutex.Unlock() runs where the
\* method had locked.
plugReturn(g) ==
    /\ plugPc[g] = "return"
    /\ plugMutex' = IF plugMutex = g THEN "none" ELSE plugMutex
    /\ plugOp' = [plugOp EXCEPT ![g] = "none"]
    /\ plugPc' = [plugPc EXCEPT ![g] = "idle"]
    /\ UNCHANGED <<plugOn, plugSeen, plugCalls>>

plugCallStep ==
    (\E g \in PlugCallers, op \in PlugOps : plugCall(g, op))
        /\ UNCHANGED notPlugVars

plugLockStep == (\E g \in PlugCallers : plugLock(g)) /\ UNCHANGED notPlugVars

PowerCycleOffStep ==
    (\E g \in PlugCallers : PowerCycleOff(g)) /\ UNCHANGED notPlugVars

PowerCycleDelayStep ==
    (\E g \in PlugCallers : PowerCycleDelay(g)) /\ UNCHANGED notPlugVars

PowerCycleOnStep ==
    (\E g \in PlugCallers : PowerCycleOn(g)) /\ UNCHANGED notPlugVars

plugScriptStep ==
    (\E g \in PlugCallers : plugScript(g)) /\ UNCHANGED notPlugVars

plugReturnStep ==
    (\E g \in PlugCallers : plugReturn(g)) /\ UNCHANGED notPlugVars

PlugNext ==
    \/ plugCallStep
    \/ plugLockStep
    \/ PowerCycleOffStep
    \/ PowerCycleDelayStep
    \/ PowerCycleOnStep
    \/ plugScriptStep
    \/ plugReturnStep

(***************************************************************************)
(*      RECORDING FILE ROUTES OF THE WEB UI (internal/webui/server.go)     *)
(*                                                                         *)
(* Paths are strings.  A request goes through http.DefaultServeMux, which  *)
(* redirects a request whose path is not clean unless its method is        *)
(* CONNECT, then to handleRecordingPlayback or, through                    *)
(* handleRecordingsAPI, to handleRecordingPlaylist.                        *)
(***************************************************************************)

\* storage.base_path
BasePath == "/data"

PlaybackPrefix == "/recordings/"

PlaylistPrefix == "/api/recordings/playlist/"

Digits == {"0", "1", "2", "3", "4", "5", "6", "7", "8", "9"}

DigitValue(c) ==
    CASE c = "0" -> 0 [] c = "1" -> 1 [] c = "2" -> 2 [] c = "3" -> 3
      [] c = "4" -> 4 [] c = "5" -> 5 [] c = "6" -> 6 [] c = "7" -> 7
      [] c = "8" -> 8 [] c = "9" -> 9

CharAt(s, i) == SubSeq(s, i, i)

\* s[i:], with i counted from 0 as in Go
SliceFrom(s, i) == SubSeq(s, i + 1, Len(s))

\* s[i:j], with i and j counted from 0 as in Go
Slice(s, i, j) == SubSeq(s, i + 1, j)

\* strings.HasPrefix, which filepath.HasPrefix is
HasPrefix(s, prefix) ==
    Len(s) >= Len(prefix) /\ SubSeq(s, 1, Len(prefix)) = prefix

RECURSIVE SplitFrom(_, _, _, _)
SplitFrom(s, i, current, parts) ==
    IF i > Len(s) THEN Append(parts, current)
    ELSE IF CharAt(s, i) = "/"
         THEN SplitFrom(s, i + 1, "", Append(parts, current))
         ELSE SplitFrom(s, i + 1, current \o CharAt(s, i), parts)

\* strings.Split(s, "/")
Split(s) == SplitFrom(s, 1, "", <<>>)

RECURSIVE JoinWithSlash(_)
JoinWithSlash(elems) ==
    IF elems = <<>> THEN ""
    ELSE IF Len(elems) = 1 THEN elems[1]
    ELSE elems[1] \o "/" \o JoinWithSlash(Tail(elems))

RECURSIVE CleanElems(_, _, _)
\* The element walk of Clean: "" and "." are dropped, ".." removes the
\* element before it, is dropped at the root, and is kept at the head of a
\* relative path.
CleanElems(elems, rooted, out) ==
    IF elems = <<>> THEN out
    ELSE LET e == Head(elems)
         IN  IF e = "" \/ e = "."
             THEN CleanElems(Tail(elems), rooted, out)
             ELSE IF e = ".."
             THEN IF out # <<>> /\ out[Len(out)] # ".."
                  THEN CleanElems(Tail(elems), rooted, SubSeq(out, 1, Len(out) - 1))
                  ELSE IF rooted
                  THEN CleanElems(Tail(elems), rooted, out)
                  ELSE CleanElems(Tail(elems), rooted, Append(out, e))
             ELSE CleanElems(Tail(elems), rooted, Append(out, e))

\* filepath.Clean (path.Clean) on a slash-separated path
Clean(p) ==
    IF p = "" THEN "."
    ELSE LET rooted == CharAt(p, 1) = "/"
             body   == JoinWithSlash(CleanElems(Split(p), rooted, <<>>))
         IN  IF rooted THEN "/" \o body
             ELSE IF body = "" THEN "." ELSE body

\* filepath.Join: the non-empty elements joined by slashes, cleaned
Join(elems) ==
    LET kept == SelectSeq(elems, LAMBDA e : e # "")
    IN  IF kept = <<>> THEN "" ELSE Clean(JoinWithSlash(kept))

\* filepath.Abs; the working directory of the service is the root
Abs(p) == IF HasPrefix(p, "/") THEN Clean(p) ELSE Join(<<"/", p>>)

RECURSIVE LastIndex(_, _, _)
\* Index from 1 of the last c in s at or before i, 0 when there is none
LastIndex(s, c, i) ==
    IF i = 0 THEN 0
    ELSE IF CharAt(s, i) = c THEN i ELSE LastIndex(s, c, i - 1)

\* filepath.Ext: the suffix from the last dot of the last element
Ext(p) ==
    LET slash == LastIndex(p, "/", Len(p))
        dot   == LastIndex(p, ".", Len(p))
    IN  IF dot > slash THEN SubSeq(p, dot, Len(p)) ELSE ""

DaysIn(year, month) ==
    IF month = 2
    THEN IF year % 4 = 0 /\ (year % 100 # 0 \/ year % 400 = 0) THEN 29 ELSE 28
    ELSE IF month \in {4, 6, 9, 11} THEN 30 ELSE 31

\* time.Parse("2006-01-02", date) succeeds
IsDate(date) ==
    /\ Len(date) = 10
    /\ CharAt(date, 5) = "-"
    /\ CharAt(date, 8) = "-"
    /\ \A i \in {1, 2, 3, 4, 6, 7, 9, 10} : CharAt(date, i) \in Digits
    /\ LET year  == 1000 * DigitValue(CharAt(date, 1))
                    + 100 * DigitValue(CharAt(date, 2))
                    + 10 * DigitValue(CharAt(date, 3))
                    + DigitValue(CharAt(date, 4))
           month == 10 * DigitValue(CharAt(date, 6)) + DigitValue(CharAt(date, 7))
           day   == 10 * DigitValue(CharAt(date, 9)) + DigitValue(CharAt(date, 10))
       IN  /\ month \in 1..12
           /\ day \in 1..DaysIn(year, month)

\* containsDotDot of net/http, which makes ServeFile refuse a request
containsDotDot(p) == \E i \in DOMAIN Split(p) : Split(p)[i] = ".."

\* cleanPath of net/http's ServeMux
cleanPath(p) ==
    LET q  == IF p = "" THEN "/" ELSE IF CharAt(p, 1) # "/" THEN "/" \o p ELSE p
        np == Clean(q)
    IN  IF CharAt(q, Len(q)) = "/" /\ np # "/"
        THEN (IF Len(q) = Len(np) + 1 /\ HasPrefix(q, np) THEN q ELSE np \o "/")
        ELSE np

\* A response: the status, and the file the handler stat'ed, opened or
\* named in its body ("": none).
Response(route, method, path, handled, status, file) ==
    [route |-> route, method |-> method, path |-> path, handled |-> handled,
     status |-> status, file |-> file]

NoResponse == Response("none", "", "", FALSE, 0, "")

\* The check both handlers make before they go to the file.
escapes(camera, filePath) ==
    LET baseDir == Join(<<BasePath, camera, "recordings">>)
    IN  ~HasPrefix(Abs(filePath), Abs(baseDir))

RECURSIVE IndexOfSlash(_, _)
\* Index from 0 of the first slash of s at or after i, -1 when there is none
IndexOfSlash(s, i) ==
    IF i >= Len(s) THEN -1
    ELSE IF CharAt(s, i + 1) = "/" THEN i ELSE IndexOfSlash(s, i + 1)

\* Server.handleRecordingPlayback on URL path p
handleRecordingPlayback(method, p) ==
    LET trimmed == SliceFrom(p, Len(PlaybackPrefix))
        slash   == IndexOfSlash(trimmed, 0)
        camera  == IF slash = -1 THEN "" ELSE Slice(trimmed, 0, slash)
        idx1    == slash + 1
        reply(status, file) == Response("playback", method, p, TRUE, status, file)
    IN  IF slash = -1 \/ camera = "" THEN reply(400, "")
        ELSE IF ~(Len(trimmed) > idx1 + 10 /\ CharAt(trimmed, idx1 + 11) = "/")
        THEN reply(400, "")
        ELSE LET date     == Slice(trimmed, idx1, idx1 + 10)
                 filename == SliceFrom(trimmed, idx1 + 11)
                 filePath == Join(<<BasePath, camera, "recordings", date, filename>>)
             IN  IF date = "" \/ filename = "" THEN reply(400, "")
                 ELSE IF ~IsDate(date) THEN reply(400, "")
                 ELSE IF Ext(filename) # ".ts" THEN reply(400, "")
                 ELSE IF escapes(camera, filePath) THEN reply(403, "")
                 ELSE IF containsDotDot(p) THEN reply(400, "")
                 ELSE IF filePath \in fsFiles THEN reply(200, filePath)
                 ELSE reply(404, filePath)

\* Server.handleRecordingPlaylist on URL path p, reached through
\* handleRecordingsAPI
handleRecordingPlaylistFile(method, p) ==
    LET trimmed == SliceFrom(p, Len(PlaylistPrefix))
        parts   == SelectSeq(Split(trimmed), LAMBDA e : e # "")
        reply(status, file) == Response("playlist", method, p, TRUE, status, file)
    IN  IF Len(parts) # 3 THEN reply(400, "")
        ELSE LET camera   == parts[1]
                 date     == parts[2]
                 filename == parts[3]
                 filePath == Join(<<BasePath, camera, "recordings", date, filename>>)
             IN  IF escapes(camera, filePath) THEN reply(403, "")
                 ELSE IF filePath \notin fsFiles THEN reply(404, filePath)
                 ELSE reply(200, filePath)

\* ServeMux: a request other than CONNECT whose path is not clean is
\* answered with a redirect to the clean path and reaches no handler.
muxRedirects(method, p) == method # "CONNECT" /\ cleanPath(p) # p

RouteCameras == {"cam1", "cam2", "..", "."}

RouteDates == {"2025-11-22", "2025-02-30", "..", "recordings"}

RouteFiles ==
    {"15-30-00.ts", "notes.txt", "15-30-00", "..", "../../../../etc/key.ts",
     "../../recordings_old/2025-11-22/09-00-00.ts",
     "../../../cam2/recordings/2025-11-22/10-00-00.ts"}

RouteMethods == {"GET", "CONNECT"}

\* The files of a deployment: segments and a stray file in the storage
\* root, and files of the host outside it.
FilesInside ==
    {"/data/cam1/recordings/2025-11-22/15-30-00.ts",
     "/data/cam1/recordings/2025-11-22/notes.txt",
     "/data/cam1/recordings/2025-11-22/15-30-00",
     "/data/cam1/recordings_old/2025-11-22/09-00-00.ts",
     "/data/cam2/recordings/2025-11-22/10-00-00.ts"}

FilesOutside ==
    {"/etc/key.ts",
     "/recordings/2025-11-22/15-30-00.ts",
     "/recordings/2025-11-22/notes.txt",
     "/data/recordings/2025-11-22/15-30-00.ts"}

NoRequest == [route |-> "none", method |-> "", path |-> ""]

RouteInit ==
    /\ fsFiles \in {FilesInside \cup FilesOutside, FilesInside}
    /\ request = NoRequest
    /\ response = NoResponse

\* A client sends a request to /recordings/{camera}/{date}/{file} or to
\* /api/recordings/playlist/{camera}/{date}/{file}.
sendRequest(route, method, camera, date, file) ==
    /\ request = NoRequest
    /\ request' = [route  |-> route,
                   method |-> method,
                   path   |-> (IF route = "playback" THEN PlaybackPrefix
                               ELSE PlaylistPrefix)
                              \o camera \o "/" \o date \o "/" \o file]
    /\ response' = NoResponse
    /\ UNCHANGED fsFiles

\* The server answers a request to /recordings/...
servePlayback ==
    /\ request.route = "playback"
    /\ response' = IF muxRedirects(request.method, request.path)
                   THEN Response("playback", request.method, request.path,
                                 FALSE, 301, "")
                   ELSE handleRecordingPlayback(request.method, request.path)
    /\ request' = NoRequest
    /\ UNCHANGED fsFiles

\* The server answers a request to /api/recordings/playlist/...
servePlaylist ==
    /\ request.route = "playlist"
    /\ response' = IF muxRedirects(request.method, request.path)
                   THEN Response("playlist", request.method, request.path,
                                 FALSE, 301, "")
                   ELSE handleRecordingPlaylistFile(request.method, request.path)
    /\ request' = NoRequest
    /\ UNCHANGED fsFiles

sendRequestStep ==
    (\E r \in {"playback", "playlist"}, m \in RouteMethods, c \in RouteCameras,
        d \in RouteDates, f \in RouteFiles : sendRequest(r, m, c, d, f))
        /\ UNCHANGED notRouteVars

servePlaybackStep == servePlayback /\ UNCHANGED notRouteVars

servePlaylistStep == servePlaylist /\ UNCHANGED notRouteVars

RouteNext ==
    \/ sendRequestStep
    \/ servePlaybackStep
    \/ servePlaylistStep

(***************************************************************************)
(*   A DATE PARTITION DELETED WHILE IT IS INDEXED (storage cleaner, web UI)*)
(*                                                                         *)
(* Cleaner.cleanup removes a date directory with os.RemoveAll, which       *)
(* unlinks the entries one by one and then removes the directory.          *)
(* handleRecordingsList and handleRecordingsTimeline read the directory    *)
(* with filepath.Glob and then os.Stat each name, skipping those that fail.*)
(***************************************************************************)

IndexSegments == {"08-00-00.ts", "08-30-00.ts", "09-00-00.ts"}

\* The order in which Glob returns the names.
IndexOrder == [f \in IndexSegments |->
                 CASE f = "08-00-00.ts" -> 1
                   [] f = "08-30-00.ts" -> 2
                   [] f = "09-00-00.ts" -> 3]

IndexRoutes == {"list", "timeline"}

\* Requests explored.
MaxIndexRequests == 2

NoAnswer == [served |-> FALSE]

IndexInit ==
    /\ ixFiles = IndexSegments
    /\ ixDir = TRUE
    /\ ixRemover = "idle"
    /\ ixReader = "idle"
    /\ ixRoute = "none"
    /\ ixGlobbed = {}
    /\ ixSeen = {}
    /\ ixAnswer = NoAnswer
    /\ ixRequests = 0

\* Cleaner.cleanup finds the directory older than the cutoff and calls
\* os.RemoveAll on it.
RemoveAllBegin ==
    /\ ixRemover = "idle"
    /\ ixRemover' = "removing"
    /\ UNCHANGED <<ixFiles, ixDir, ixReader, ixRoute, ixGlobbed, ixSeen,
                   ixAnswer, ixRequests>>

\* os.RemoveAll unlinks one entry of the directory.
RemoveAllUnlink(f) ==
    /\ ixRemover = "removing"
    /\ f \in ixFiles
    /\ ixFiles' = ixFiles \ {f}
    /\ UNCHANGED <<ixDir, ixRemover, ixReader, ixRoute, ixGlobbed, ixSeen,
                   ixAnswer, ixRequests>>

\* os.RemoveAll removes the emptied directory and returns.
RemoveAllRmdir ==
    /\ ixRemover = "removing"
    /\ ixFiles = {}
    /\ ixDir' = FALSE
    /\ ixRemover' = "done"
    /\ UNCHANGED <<ixFiles, ixReader, ixRoute, ixGlobbed, ixSeen, ixAnswer,
                   ixRequests>>

\* handleRecordingsList / handleRecordingsTimeline up to filepath.Glob: the
\* names present at that moment (none when the directory is gone).
indexGlob(route) ==
    /\ ixReader = "idle"
    /\ ixRequests < MaxIndexRequests
    /\ ixRequests' = ixRequests + 1
    /\ ixRoute' = route
    /\ ixGlobbed' = IF ixDir THEN ixFiles ELSE {}
    /\ ixSeen' = {}
    /\ ixReader' = "stat"
    /\ UNCHANGED <<ixFiles, ixDir, ixRemover, ixAnswer>>

\* The loop over the names: os.Stat(file); a name whose stat fails is
\* skipped.  Glob returns the names sorted.
indexStat ==
    /\ ixReader = "stat"
    /\ ixGlobbed # {}
    /\ LET f == CHOOSE g \in ixGlobbed :
                    \A h \in ixGlobbed : IndexOrder[g] <= IndexOrder[h]
       IN  /\ ixSeen' = IF f \in ixFiles THEN ixSeen \cup {f} ELSE ixSeen
           /\ ixGlobbed' = ixGlobbed \ {f}
    /\ UNCHANGED <<ixFiles, ixDir, ixRemover, ixReader, ixRoute, ixAnswer,
                   ixRequests>>

\* The handler encodes what it has collected and returns.
indexRespond ==
    /\ ixReader = "stat"
    /\ ixGlobbed = {}
    /\ ixAnswer' = [served |-> TRUE, route |-> ixRoute, segments |-> ixSeen]
    /\ ixReader' = "idle"
    /\ ixRoute' = "none"
    /\ ixSeen' = {}
    /\ UNCHANGED <<ixFiles, ixDir, ixRemover, ixGlobbed, ixRequests>>

RemoveAllBeginStep == RemoveAllBegin /\ UNCHANGED notIndexVars

RemoveAllUnlinkStep ==
    (\E f \in IndexSegments : RemoveAllUnlink(f)) /\ UNCHANGED notIndexVars

RemoveAllRmdirStep == RemoveAllRmdir /\ UNCHANGED notIndexVars

indexGlobStep ==
    (\E route \in IndexRoutes : indexGlob(route)) /\ UNCHANGED notIndexVars

indexStatStep == indexStat /\ UNCHANGED notIndexVars

indexRespondStep == indexRespond /\ UNCHANGED notIndexVars

IndexNext ==
    \/ RemoveAllBeginStep
    \/ RemoveAllUnlinkStep
    \/ RemoveAllRmdirStep
    \/ indexGlobStep
    \/ indexStatStep
    \/ indexRespondStep

(***************************************************************************)
(*     RETRY LOOPS OF ONE RECORDER (startRecording, startLiveStream)       *)
(***************************************************************************)

\* max_retries values explored; a negative value means no limit.
MaxRetriesChoices == {-1, 0, 1, 2}

\* Transcoders one loop may start in the behaviours explored.
MaxSpawns == 3

RetryInit ==
    /\ maxRetries \in MaxRetriesChoices
    /\ retryCount = [k \in Kinds |-> 0]
    /\ loopPc = [k \in Kinds |-> "select"]
    /\ exitWhy = [k \in Kinds |-> "none"]
    /\ spawns = [k \in Kinds |-> 0]
    /\ loopCtxDone = FALSE
    /\ folderHelpers = 0

\* a limit test that lets one more attempt through
maxRetriesReached_Beyond(k) == maxRetries >= 0 /\ retryCount[k] > maxRetries

\* r.camera.MaxRetries >= 0 && retryCount >= r.camera.MaxRetries
maxRetriesReached(k) == maxRetries >= 0 /\ retryCount[k] >= maxRetries

\* The top of the loop: return on a cancelled context, return when the
\* retries are used up, otherwise start the transcoder (record, liveStream);
\* record first launches a createNextDayFolder goroutine on the loop's
\* context.
retrySelect(k) ==
    /\ loopPc[k] = "select"
    /\ IF loopCtxDone
       THEN /\ loopPc' = [loopPc EXCEPT ![k] = "exited"]
            /\ exitWhy' = [exitWhy EXCEPT ![k] = "ctx"]
            /\ UNCHANGED <<spawns, folderHelpers>>
       ELSE IF maxRetriesReached(k)
       THEN /\ loopPc' = [loopPc EXCEPT ![k] = "exited"]
            /\ exitWhy' = [exitWhy EXCEPT ![k] = "max"]
            /\ UNCHANGED <<spawns, folderHelpers>>
       ELSE /\ spawns[k] < MaxSpawns
            /\ loopPc' = [loopPc EXCEPT ![k] = "running"]
            /\ spawns' = [spawns EXCEPT ![k] = @ + 1]
            /\ folderHelpers' = IF k = "record" THEN folderHelpers + 1
                                                ELSE folderHelpers
            /\ UNCHANGED exitWhy
    /\ UNCHANGED <<maxRetries, retryCount, loopCtxDone>>

\* record / liveStream returns: with an error the counter goes up and the
\* loop waits retry_delay; without one the loop goes round at once.
transcoderExit(k, failed) ==
    /\ loopPc[k] = "running"
    /\ IF failed
       THEN /\ retryCount' = [retryCount EXCEPT ![k] = @ + 1]
            /\ loopPc' = [loopPc EXCEPT ![k] = "delay"]
       ELSE /\ loopPc' = [loopPc EXCEPT ![k] = "select"]
            /\ UNCHANGED retryCount
    /\ UNCHANGED <<maxRetries, exitWhy, spawns, loopCtxDone, folderHelpers>>

\* The wait before a retry, case <-time.After(retry_delay): continue.
retryDelayOver(k) ==
    /\ loopPc[k] = "delay"
    /\ loopPc' = [loopPc EXCEPT ![k] = "select"]
    /\ UNCHANGED <<maxRetries, retryCount, exitWhy, spawns, loopCtxDone,
                   folderHelpers>>

\* The wait before a retry, case <-ctx.Done(): return.
retryDelayCancelled(k) ==
    /\ loopPc[k] = "delay"
    /\ loopCtxDone
    /\ loopPc' = [loopPc EXCEPT ![k] = "exited"]
    /\ exitWhy' = [exitWhy EXCEPT ![k] = "ctx"]
    /\ UNCHANGED <<maxRetries, retryCount, spawns, loopCtxDone, folderHelpers>>

\* The context of the recorder is cancelled (Stop, shutdown).
retryCancel ==
    /\ ~loopCtxDone
    /\ loopCtxDone' = TRUE
    /\ UNCHANGED <<maxRetries, retryCount, loopPc, exitWhy, spawns,
                   folderHelpers>>

\* A createNextDayFolder goroutine finds its context done and returns.
folderHelperReturns ==
    /\ loopCtxDone
    /\ folderHelpers > 0
    /\ folderHelpers' = folderHelpers - 1
    /\ UNCHANGED <<maxRetries, retryCount, loopPc, exitWhy, spawns,
                   loopCtxDone>>

retrySelectStep == (\E k \in Kinds : retrySelect(k)) /\ UNCHANGED notRetryVars

transcoderExitStep ==
    (\E k \in Kinds, failed \in BOOLEAN : transcoderExit(k, failed))
        /\ UNCHANGED notRetryVars

retryDelayOverStep ==
    (\E k \in Kinds : retryDelayOver(k)) /\ UNCHANGED notRetryVars

retryDelayCancelledStep ==
    (\E k \in Kinds : retryDelayCancelled(k)) /\ UNCHANGED notRetryVars

retryCancelStep == retryCancel /\ UNCHANGED notRetryVars

folderHelperReturnsStep == folderHelperReturns /\ UNCHANGED notRetryVars

RetryNext ==
    \/ retrySelectStep
    \/ transcoderExitStep
    \/ retryDelayOverStep
    \/ retryDelayCancelledStep
    \/ retryCancelStep
    \/ folderHelperReturnsStep

(***************************************************************************)
(*     LOADING THE CONFIGURATION FILE (config.Load, RecoveryManager.Start) *)
(***************************************************************************)

\* The numeric options of the recovery section, by field of RecoveryConfig.
RecoveryFields ==
    {"StaleThreshold", "VerificationDelay", "HealthCheckInterval",
     "MaxPowerCyclesPer30Min", "ServiceRestartTimeout",
     "PowerCycleRecoveryTimeout"}

\* What a file that writes an option gives it.
WrittenValue == [f \in RecoveryFields |-> TightRecoveryConfig[f]]

\* storage.segment_duration values a file may hold.
FileSegmentDurations == {30, 60}

\* The files explored: each recovery option written or left out; base_path
\* and one enabled camera with a URL are present.
ConfigFiles ==
    [SegmentDuration : FileSegmentDurations,
     written : [RecoveryFields -> BOOLEAN]]

\* The zero RecoveryConfig, before a file is loaded.
ZeroRecovery == [f \in RecoveryFields |-> 0]

ConfigInit ==
    /\ cfgFile \in ConfigFiles
    /\ cfgPc = "file"
    /\ loadedRecovery = ZeroRecovery
    /\ tickerPeriod = 0

\* yaml.Unmarshal into a zero Config: a key of the file sets its field, a
\* field without a key keeps Go's zero value.
Unmarshal(file) ==
    [f \in RecoveryFields |->
        IF file.written[f] THEN WrittenValue[f] ELSE 0]

\* Config.Validate: base_path, segment_duration and the enabled cameras;
\* nothing of the recovery section.
Validate(file) == file.SegmentDuration >= 60

\* config.Load
configLoad ==
    /\ cfgPc = "file"
    /\ IF Validate(cfgFile)
       THEN /\ cfgPc' = "loaded"
            /\ loadedRecovery' = Unmarshal(cfgFile)
       ELSE /\ cfgPc' = "rejected"
            /\ UNCHANGED loadedRecovery
    /\ UNCHANGED <<cfgFile, tickerPeriod>>

\* RecoveryManager.Start up to its loop: time.NewTicker panics on a period
\* that is not positive.
managerStart ==
    /\ cfgPc = "loaded"
    /\ IF loadedRecovery["HealthCheckInterval"] <= 0
       THEN /\ cfgPc' = "panicked"
            /\ UNCHANGED tickerPeriod
       ELSE /\ cfgPc' = "monitoring"
            /\ tickerPeriod' = loadedRecovery["HealthCheckInterval"]
    /\ UNCHANGED <<cfgFile, loadedRecovery>>

configLoadStep == configLoad /\ UNCHANGED notConfigVars

managerStartStep == managerStart /\ UNCHANGED notConfigVars

ConfigNext ==
    \/ configLoadStep
    \/ managerStartStep

(***************************************************************************)
(*        THE PROCESS AFTER STARTUP (cmd/corenvr: main from line 62)       *)
(***************************************************************************)

\* recovery.health_check_interval as Load returns it: 0 when the key is
\* left out (or written as 0), 60 when written.
ProcIntervals == {0, 60}

\* Recorders main starts in the deployment explored.
ProcRecorders == 2

\* What can go wrong in a background component while main waits.
BackgroundFailures ==
    {"cleanup_error", "disk_stat_error", "alert_failed", "web_server_error",
     "tier_failed"}

\* main has started the cleaner, the recorders, the recovery manager's
\* goroutine (when recovery is enabled) and the web UI, and blocks on sigChan.
ProcInit ==
    /\ procRecovery \in [Enabled : BOOLEAN, HealthCheckInterval : ProcIntervals]
    /\ procPc = "waiting"
    /\ recoveryPc = IF procRecovery.Enabled THEN "spawned" ELSE "off"
    /\ exitCause = "none"
    /\ sigPending = "none"
    /\ loopsRunning = ProcRecorders
    /\ failuresLogged = {}

\* RecoveryManager.Start in its goroutine: time.NewTicker panics on an
\* interval that is not positive, and a panic in a goroutine ends the
\* process; otherwise the monitoring loop runs.
recoveryManagerStart ==
    /\ recoveryPc = "spawned"
    /\ procPc # "exited"
    /\ IF procRecovery.HealthCheckInterval <= 0
       THEN /\ procPc' = "exited"
            /\ exitCause' = "panic"
            /\ recoveryPc' = "stopped"
       ELSE /\ recoveryPc' = IF procPc = "shutdown" THEN "stopped"
                                                    ELSE "monitoring"
            /\ UNCHANGED <<procPc, exitCause>>
    /\ UNCHANGED <<procRecovery, sigPending, loopsRunning, failuresLogged>>

\* A background component fails: the cleaner cannot delete or stat, an alert
\* is not delivered, http.ListenAndServe returns, a recovery tier returns an
\* error.  Each of them logs the error and carries on.
backgroundFailure(f) ==
    /\ procPc = "waiting"
    /\ f \in BackgroundFailures
    /\ f = "tier_failed" => recoveryPc = "monitoring"
    /\ failuresLogged' = failuresLogged \cup {f}
    /\ UNCHANGED <<procRecovery, procPc, recoveryPc, exitCause, sigPending,
                   loopsRunning>>

\* A recorder's Start returns, its loops having used up their retries:
\* wg.Done, and main keeps waiting for a signal.
recorderLoopExhausted ==
    /\ procPc = "waiting"
    /\ loopsRunning > 0
    /\ loopsRunning' = loopsRunning - 1
    /\ UNCHANGED <<procRecovery, procPc, recoveryPc, exitCause, sigPending,
                   failuresLogged>>

\* Tier 2: systemctl restart corenvr; the service manager sends the process
\* its termination signal.
tier2ServiceRestart ==
    /\ procPc = "waiting"
    /\ recoveryPc = "monitoring"
    /\ sigPending = "none"
    /\ sigPending' = "systemctl"
    /\ UNCHANGED <<procRecovery, procPc, recoveryPc, exitCause, loopsRunning,
                   failuresLogged>>

\* SIGINT or SIGTERM is delivered to the process.
signalDelivered ==
    /\ procPc = "waiting"
    /\ sigPending = "none"
    /\ sigPending' = "signal"
    /\ UNCHANGED <<procRecovery, procPc, recoveryPc, exitCause, loopsRunning,
                   failuresLogged>>

\* main: sig := <-sigChan, cancel(), Stop of every recorder; the recovery
\* manager's loop sees ctx.Done and returns.
mainReceivesSignal ==
    /\ procPc = "waiting"
    /\ sigPending # "none"
    /\ procPc' = "shutdown"
    /\ recoveryPc' = IF recoveryPc = "monitoring" THEN "stopped" ELSE recoveryPc
    /\ loopsRunning' = 0
    /\ UNCHANGED <<procRecovery, exitCause, sigPending, failuresLogged>>

\* main returns after the wait for the WaitGroup (at most 10 s).
mainReturns ==
    /\ procPc = "shutdown"
    /\ procPc' = "exited"
    /\ exitCause' = sigPending
    /\ UNCHANGED <<procRecovery, recoveryPc, sigPending, loopsRunning,
                   failuresLogged>>

recoveryManagerStartStep == recoveryManagerStart /\ UNCHANGED notProcVars

backgroundFailureStep ==
    (\E f \in BackgroundFailures : backgroundFailure(f)) /\ UNCHANGED notProcVars

recorderLoopExhaustedStep == recorderLoopExhausted /\ UNCHANGED notProcVars

tier2ServiceRestartStep == tier2ServiceRestart /\ UNCHANGED notProcVars

signalDeliveredStep == signalDelivered /\ UNCHANGED notProcVars

mainReceivesSignalStep == mainReceivesSignal /\ UNCHANGED notProcVars

mainReturnsStep == mainReturns /\ UNCHANGED notProcVars

ProcNext ==
    \/ recoveryManagerStartStep
    \/ backgroundFailureStep
    \/ recorderLoopExhaustedStep
    \/ tier2ServiceRestartStep
    \/ signalDeliveredStep
    \/ mainReceivesSignalStep
    \/ mainReturnsStep

(***************************************************************************)
(*      STALE DETECTION OVER DAYS (recorder.go, recovery/manager.go)       *)
(*                                                                         *)
(* One camera, its date folders and the recovery manager's ticker, over    *)
(* an unbounded number of days.  The code compares instants only by their  *)
(* difference and by their calendar day, so the clock is kept inside the   *)
(* days FirstDay and FirstDay + 1: when a third day would begin, every     *)
(* instant and folder is moved back by one day.                            *)
(***************************************************************************)

\* Distance between the ticks the model follows: the stale threshold, a
\* multiple of HealthCheckInterval.  The ticks between two of them see the
\* same folders and a younger newest segment.
DetectStep == DefaultRecoveryConfig.StaleThreshold

DetectDays == FirstDay..(FirstDay + 2)

\* An instant moved back by one day; the zero time.Time stays zero, and an
\* instant is never moved onto it.
DayBack(t) ==
    IF t = ZeroTime THEN ZeroTime
    ELSE IF t - SecondsPerDay <= ZeroTime THEN DetectStep
    ELSE t - SecondsPerDay

\* Recorder.record has made today's folder and the transcoder has written
\* its first segment; the recovery manager has just been started.
DetectInit ==
    /\ dnow = Midnight - SecondsPerDay \div 2
    /\ dFolders = {FirstDay}
    /\ dNewest = [d \in DetectDays |-> IF d = FirstDay THEN dnow ELSE ZeroTime]
    /\ producing = TRUE
    /\ dDetectedAt = ZeroTime
    /\ dRecoveryStarted = FALSE
    /\ dTurn = "advance"

\* The camera stops delivering a stream, for good.  The transcoder stays
\* blocked on its input or exits and is started again by the retry loop;
\* either way no segment is written any more.
cameraStops ==
    /\ producing
    /\ producing' = FALSE
    /\ UNCHANGED <<dnow, dFolders, dNewest, dDetectedAt, dRecoveryStarted, dTurn>>

\* DetectStep seconds pass.  createNextDayFolder wakes a minute before
\* midnight and makes tomorrow's folder; a producing transcoder keeps the
\* segment file of the current instant up to date.
timePasses ==
    /\ dTurn = "advance"
    /\ LET t1      == dnow + DetectStep
           made    == IF wakeTime(dnow) <= t1
                      THEN dFolders \cup {DayOf(wakeTime(dnow) + SecondsPerDay)}
                      ELSE dFolders
           written == IF producing /\ DayOf(t1) \in made
                      THEN [dNewest EXCEPT ![DayOf(t1)] = t1]
                      ELSE dNewest
       IN  IF DayOf(t1) <= FirstDay + 1
           THEN /\ dnow' = t1
                /\ dFolders' = made
                /\ dNewest' = written
                /\ dDetectedAt' = dDetectedAt
           ELSE /\ dnow' = t1 - SecondsPerDay
                /\ dFolders' = {d \in DetectDays : d + 1 \in made}
                /\ dNewest' = [d \in DetectDays |->
                                  IF d + 1 \in DetectDays
                                  THEN DayBack(written[d + 1])
                                  ELSE ZeroTime]
                /\ dDetectedAt' = DayBack(dDetectedAt)
    /\ dTurn' = "tick"
    /\ UNCHANGED <<producing, dRecoveryStarted>>

\* RecoveryManager.Start: the ticker fires and checkCamera runs.  Reaching
\* recoverCamera is recorded; its first tier runs Recorder.Restart, whose
\* record makes today's folder.
detectTick ==
    /\ dTurn = "tick"
    /\ LET last   == GetLastRecordingTime(dFolders, dNewest, dnow)
           branch == checkBranch(last, dDetectedAt, dnow, DefaultRecoveryConfig)
       IN  /\ dDetectedAt' = CASE branch = "recovered" -> ZeroTime
                               [] branch = "detected"  -> dnow
                               [] OTHER                -> dDetectedAt
           /\ dRecoveryStarted' = CASE branch = "recovered" -> FALSE
                                    [] branch = "recover"   -> TRUE
                                    [] OTHER                -> dRecoveryStarted
           /\ dFolders' = IF branch = "recover" /\ ~dRecoveryStarted
                          THEN dFolders \cup {DayOf(dnow)}
                          ELSE dFolders
    /\ dTurn' = "advance"
    /\ UNCHANGED <<dnow, dNewest, producing>>

cameraStopsStep == cameraStops /\ UNCHANGED notDetectVars

timePassesStep == timePasses /\ UNCHANGED notDetectVars

detectTickStep == detectTick /\ UNCHANGED notDetectVars

DetectNext ==
    \/ cameraStopsStep
    \/ timePassesStep
    \/ detectTickStep

(***************************************************************************)
(*    GENERATIONS OF A RECORDER (internal/recorder: Start, Stop, Restart)  *)
(*                                                                         *)
(* Every call of Recorder.Start makes a context of its own under the       *)
(* parent context and launches the two driver loops on it: a generation.   *)
(* main starts the first, every Recorder.Restart one more.  The loops of   *)
(* an earlier generation are not joined by Stop; they end by themselves    *)
(* once they find their context done.  Clock in seconds.                   *)
(***************************************************************************)

\* Generations explored, and the last instant of their clock.
MaxGens == 2
MaxGenClock == 4

Gens == 1..MaxGens

\* ctx.Done() of generation g is closed: by its own cancel or the parent's
ctxIsDone(g) == parentDone \/ genDone[g]

\* main has called Recorder.Start in the recorder's goroutine.
GenInit ==
    /\ gclock = 0
    /\ parentDone = FALSE
    /\ curGen = 1
    /\ genDone = [g \in Gens |-> FALSE]
    /\ gdriver = [g \in Gens |-> [k \in Kinds |->
                     IF g = 1 THEN "select" ELSE "off"]]
    /\ galive = [g \in Gens |-> [k \in Kinds |-> FALSE]]
    /\ restartPc = "idle"
    /\ pauseUntil = 0

\* startRecording / startLiveStream at the top of the loop: return on a
\* done context or, exhausted, on max retries; otherwise call record /
\* liveStream, which builds the command and calls cmd.Start.
loopSelect(g, k, exhausted) ==
    /\ gdriver[g][k] = "select"
    /\ gdriver' = [gdriver EXCEPT ![g][k] =
                      IF ctxIsDone(g) \/ exhausted THEN "gone" ELSE "start"]
    /\ UNCHANGED <<gclock, parentDone, curGen, genDone, galive, restartPc,
                   pauseUntil>>

\* cmd.Start tests the context before it forks; on its error the loop
\* counts a retry, finds ctx.Done() in its select and returns.
loopStartCheck(g, k) ==
    /\ gdriver[g][k] = "start"
    /\ gdriver' = [gdriver EXCEPT ![g][k] =
                      IF ctxIsDone(g) THEN "gone" ELSE "fork"]
    /\ UNCHANGED <<gclock, parentDone, curGen, genDone, galive, restartPc,
                   pauseUntil>>

\* cmd.Start forks the transcoder and starts the watcher of its context;
\* the loop blocks in cmd.Wait.
loopFork(g, k) ==
    /\ gdriver[g][k] = "fork"
    /\ galive' = [galive EXCEPT ![g][k] = TRUE]
    /\ gdriver' = [gdriver EXCEPT ![g][k] = "wait"]
    /\ UNCHANGED <<gclock, parentDone, curGen, genDone, restartPc, pauseUntil>>

\* The transcoder exits: by itself, on the interrupt of Stop, or killed by
\* the watcher or by Stop.
transcoderEnds(g, k) ==
    /\ galive[g][k]
    /\ galive' = [galive EXCEPT ![g][k] = FALSE]
    /\ UNCHANGED <<gclock, parentDone, curGen, genDone, gdriver, restartPc,
                   pauseUntil>>

\* cmd.Wait returns in the loop: on an error the loop waits RetryDelay
\* unless its context is done, on none it goes round at once.
loopWaitReturns(g, k, failed) ==
    /\ gdriver[g][k] = "wait"
    /\ ~galive[g][k]
    /\ gdriver' = [gdriver EXCEPT ![g][k] =
                      IF ~failed THEN "select"
                      ELSE IF ctxIsDone(g) THEN "gone"
                      ELSE "delay"]
    /\ UNCHANGED <<gclock, parentDone, curGen, genDone, galive, restartPc,
                   pauseUntil>>

\* select in the retry delay: ctx.Done() or time.After(RetryDelay)
loopDelayOver(g, k) ==
    /\ gdriver[g][k] = "delay"
    /\ gdriver' = [gdriver EXCEPT ![g][k] =
                      IF ctxIsDone(g) THEN "gone" ELSE "select"]
    /\ UNCHANGED <<gclock, parentDone, curGen, genDone, galive, restartPc,
                   pauseUntil>>

\* Recorder.Restart, called by restartCameraGoroutine: Stop begins with
\* r.cancel(), the cancel function of the newest generation.
restartStop ==
    /\ restartPc = "idle"
    /\ curGen < MaxGens
    /\ genDone' = [genDone EXCEPT ![curGen] = TRUE]
    /\ restartPc' = "stop"
    /\ UNCHANGED <<gclock, parentDone, curGen, gdriver, galive, pauseUntil>>

\* Recorder.Restart without its pause
restartPause_Skipped ==
    /\ restartPc = "stop"
    /\ restartPc' = "pause"
    /\ pauseUntil' = gclock
    /\ UNCHANGED <<gclock, parentDone, curGen, genDone, gdriver, galive>>

\* Recorder.Restart: Stop returns, at once when it finds no process to
\* wait for, after up to five seconds per command otherwise, and
\* time.Sleep(2 * time.Second) begins.
restartPause ==
    /\ restartPc = "stop"
    /\ restartPc' = "pause"
    /\ pauseUntil' = gclock + RestartQuiescence
    /\ UNCHANGED <<gclock, parentDone, curGen, genDone, gdriver, galive>>

\* Recorder.Restart: go r.Start(parentCtx).  Start derives the context of
\* the new generation, overwrites r.ctx and r.cancel, launches the loops.
restartStart ==
    /\ restartPc = "pause"
    /\ gclock >= pauseUntil
    /\ curGen' = curGen + 1
    /\ gdriver' = [gdriver EXCEPT ![curGen + 1] = [k \in Kinds |-> "select"]]
    /\ restartPc' = "idle"
    /\ UNCHANGED <<gclock, parentDone, genDone, galive, pauseUntil>>

\* main on a shutdown signal: cancel() of the parent context, then Stop on
\* the recorder, whose r.cancel() is that of the newest generation.
shutdownStop ==
    /\ ~parentDone
    /\ parentDone' = TRUE
    /\ genDone' = [genDone EXCEPT ![curGen] = TRUE]
    /\ UNCHANGED <<gclock, curGen, gdriver, galive, restartPc, pauseUntil>>

\* A second passes.  Within it the kernel ends a process the watcher of a
\* done context has killed, and a cmd.Start that has tested its context
\* forks.
genTick ==
    /\ gclock < MaxGenClock
    /\ \A g \in Gens : \A k \in Kinds :
          /\ ~(galive[g][k] /\ ctxIsDone(g))
          /\ gdriver[g][k] # "fork"
    /\ gclock' = gclock + 1
    /\ UNCHANGED <<parentDone, curGen, genDone, gdriver, galive, restartPc,
                   pauseUntil>>

loopSelectStep ==
    /\ \E g \in Gens, k \in Kinds, exhausted \in BOOLEAN :
          loopSelect(g, k, exhausted)
    /\ UNCHANGED notGenVars

loopStartCheckStep ==
    (\E g \in Gens, k \in Kinds : loopStartCheck(g, k)) /\ UNCHANGED notGenVars

loopForkStep ==
    (\E g \in Gens, k \in Kinds : loopFork(g, k)) /\ UNCHANGED notGenVars

transcoderEndsStep ==
    (\E g \in Gens, k \in Kinds : transcoderEnds(g, k)) /\ UNCHANGED notGenVars

loopWaitReturnsStep ==
    /\ \E g \in Gens, k \in Kinds, failed \in BOOLEAN :
          loopWaitReturns(g, k, failed)
    /\ UNCHANGED notGenVars

loopDelayOverStep ==
    (\E g \in Gens, k \in Kinds : loopDelayOver(g, k)) /\ UNCHANGED notGenVars

restartStopStep == restartStop /\ UNCHANGED notGenVars

restartPauseStep == restartPause /\ UNCHANGED notGenVars

restartStartStep == restartStart /\ UNCHANGED notGenVars

shutdownStopStep == shutdownStop /\ UNCHANGED notGenVars

genTickStep == genTick /\ UNCHANGED notGenVars

GenNext ==
    \/ loopSelectStep
    \/ loopStartCheckStep
    \/ loopForkStep
    \/ transcoderEndsStep
    \/ loopWaitReturnsStep
    \/ loopDelayOverStep
    \/ restartStopStep
    \/ restartPauseStep
    \/ restartStartStep
    \/ shutdownStopStep
    \/ genTickStep

(***************************************************************************)
(*        SHUTDOWN OF THE PROCESS (cmd/corenvr/main.go, Recorder.Stop)     *)
(*                                                                         *)
(* main with one recorder and the recovery manager, from the shutdown      *)
(* signal to its return.  Stop runs in main's goroutine while the driver   *)
(* loops of the recorder run in theirs; r.recordCmd and r.liveStreamCmd    *)
(* are written by the loops and read by Stop without synchronisation, so   *)
(* each read of Stop sees whatever a loop has stored by then.  Timers      *)
(* count down in seconds.                                                  *)
(***************************************************************************)

\* time.After(10 * time.Second) in main
WaitGroupGraceSeconds == 10

\* The recorder and the recovery manager have been started by main.
ShutInit ==
    /\ shMain = "running"
    /\ shCtxDone = FALSE
    /\ shLoop = [k \in Kinds |-> "select"]
    /\ shCmd = [k \in Kinds |-> "nil"]
    /\ shAlive = [k \in Kinds |-> FALSE]
    /\ shStopIdx = 0
    /\ shStopPhase = "check"
    /\ shTimer = 0
    /\ shStartReturned = FALSE
    /\ shRecovery = "select"

\* The process has not ended: main has neither returned nor panicked.
shProcessRuns == shMain \notin {"complete", "crashed"}

\* startRecording / startLiveStream at the top of the loop, and in the
\* select of its retry delay: return on a done context (or, exhausted, on
\* max retries), otherwise go on to record / liveStream.
shLoopSelect(k, exhausted) ==
    /\ shProcessRuns
    /\ shLoop[k] = "select"
    /\ shLoop' = [shLoop EXCEPT ![k] =
                     IF shCtxDone \/ exhausted THEN "gone" ELSE "build"]
    /\ UNCHANGED <<shMain, shCtxDone, shCmd, shAlive, shStopIdx, shStopPhase,
                   shTimer, shStartReturned, shRecovery>>

\* record / liveStream: r.recordCmd = exec.CommandContext(ctx, ...), a
\* command whose Process is nil until cmd.Start has forked.
shLoopBuild(k) ==
    /\ shProcessRuns
    /\ shLoop[k] = "build"
    /\ shCmd' = [shCmd EXCEPT ![k] = "unstarted"]
    /\ shLoop' = [shLoop EXCEPT ![k] = "start"]
    /\ UNCHANGED <<shMain, shCtxDone, shAlive, shStopIdx, shStopPhase,
                   shTimer, shStartReturned, shRecovery>>

\* cmd.Start: the context's error when the context is done, the loop then
\* going round; otherwise the process is forked and the loop waits for it.
shLoopStart(k) ==
    /\ shProcessRuns
    /\ shLoop[k] = "start"
    /\ IF shCtxDone
       THEN /\ shLoop' = [shLoop EXCEPT ![k] = "select"]
            /\ UNCHANGED <<shCmd, shAlive>>
       ELSE /\ shLoop' = [shLoop EXCEPT ![k] = "wait"]
            /\ shCmd' = [shCmd EXCEPT ![k] = "started"]
            /\ shAlive' = [shAlive EXCEPT ![k] = TRUE]
    /\ UNCHANGED <<shMain, shCtxDone, shStopIdx, shStopPhase, shTimer,
                   shStartReturned, shRecovery>>

\* cmd.Wait returns in the loop once the process has exited.
shLoopWait(k) ==
    /\ shProcessRuns
    /\ shLoop[k] = "wait"
    /\ ~shAlive[k]
    /\ shLoop' = [shLoop EXCEPT ![k] = "select"]
    /\ UNCHANGED <<shMain, shCtxDone, shCmd, shAlive, shStopIdx, shStopPhase,
                   shTimer, shStartReturned, shRecovery>>

\* The transcoder exits by itself (stream error, camera unreachable).
shTranscoderExits(k) ==
    /\ shProcessRuns
    /\ shAlive[k]
    /\ shAlive' = [shAlive EXCEPT ![k] = FALSE]
    /\ UNCHANGED <<shMain, shCtxDone, shLoop, shCmd, shStopIdx, shStopPhase,
                   shTimer, shStartReturned, shRecovery>>

\* The watcher of exec.CommandContext kills the process of a done context.
shWatcherKill(k) ==
    /\ shProcessRuns
    /\ shCtxDone
    /\ shAlive[k]
    /\ shAlive' = [shAlive EXCEPT ![k] = FALSE]
    /\ UNCHANGED <<shMain, shCtxDone, shLoop, shCmd, shStopIdx, shStopPhase,
                   shTimer, shStartReturned, shRecovery>>

\* Recorder.Start in the goroutine main counts in its wait group: it
\* returns once the context it made is done.
shStartReturns ==
    /\ shProcessRuns
    /\ shCtxDone
    /\ ~shStartReturned
    /\ shStartReturned' = TRUE
    /\ UNCHANGED <<shMain, shCtxDone, shLoop, shCmd, shAlive, shStopIdx,
                   shStopPhase, shTimer, shRecovery>>

\* The recovery manager, before the shutdown, restarts the recorder
\* (restartCameraGoroutine): the context of the running generation is
\* cancelled, so its transcoders are killed, its loops and the Start that
\* made it return; a new Start, outside the wait group, launches new
\* loops; the manager then sleeps in its tier wait.
shRecoveryRestart ==
    /\ shProcessRuns
    /\ ~shCtxDone
    /\ shRecovery = "select"
    /\ shLoop' = [k \in Kinds |-> "select"]
    /\ shAlive' = [k \in Kinds |-> FALSE]
    /\ shStartReturned' = TRUE
    /\ shRecovery' = "tier"
    /\ UNCHANGED <<shMain, shCtxDone, shCmd, shStopIdx, shStopPhase, shTimer>>

\* The time.Sleep of the tier ends; checkAllCameras returns to the select.
shRecoveryTierOver ==
    /\ shProcessRuns
    /\ shRecovery = "tier"
    /\ shRecovery' = "select"
    /\ UNCHANGED <<shMain, shCtxDone, shLoop, shCmd, shAlive, shStopIdx,
                   shStopPhase, shTimer, shStartReturned>>

\* RecoveryManager.Start: case <-ctx.Done(): return
shRecoveryReturns ==
    /\ shProcessRuns
    /\ shRecovery = "select"
    /\ shCtxDone
    /\ shRecovery' = "gone"
    /\ UNCHANGED <<shMain, shCtxDone, shLoop, shCmd, shAlive, shStopIdx,
                   shStopPhase, shTimer, shStartReturned>>

\* main receives SIGINT / SIGTERM: cancel(), then Stop on the recorder,
\* whose r.cancel() finds the context done already.
shSignalReceived ==
    /\ shMain = "running"
    /\ shMain' = "stopping"
    /\ shCtxDone' = TRUE
    /\ shStopIdx' = 1
    /\ shStopPhase' = "check"
    /\ UNCHANGED <<shLoop, shCmd, shAlive, shTimer, shStartReturned,
                   shRecovery>>

\* Stop is through with a command: the next one, or main goes on to wait
\* for its wait group with a ten-second timer.
shStopAdvance ==
    IF shStopIdx < Len(StopKinds)
    THEN /\ shStopIdx' = shStopIdx + 1
         /\ shStopPhase' = "check"
         /\ shTimer' = 0
         /\ UNCHANGED shMain
    ELSE /\ shMain' = "waiting"
         /\ shTimer' = WaitGroupGraceSeconds
         /\ UNCHANGED <<shStopIdx, shStopPhase>>

\* Stop: if r.recordCmd != nil && r.recordCmd.Process != nil
shStopCheck(k) ==
    /\ shMain = "stopping"
    /\ k = StopKinds[shStopIdx]
    /\ shStopPhase = "check"
    /\ IF shCmd[k] = "started"
       THEN /\ shStopPhase' = "signal"
            /\ UNCHANGED <<shMain, shStopIdx, shTimer>>
       ELSE shStopAdvance
    /\ UNCHANGED <<shCtxDone, shLoop, shCmd, shAlive, shStartReturned,
                   shRecovery>>

\* Stop: r.recordCmd.Process.Signal(os.Interrupt), on the command the field
\* holds now.  A nil Process is dereferenced: the process panics.  A live
\* transcoder heeds the interrupt or ignores it.
shStopSignal(k, heeds) ==
    /\ shMain = "stopping"
    /\ k = StopKinds[shStopIdx]
    /\ shStopPhase = "signal"
    /\ IF shCmd[k] = "started"
       THEN /\ shAlive' = [shAlive EXCEPT ![k] = @ /\ ~heeds]
            /\ shStopPhase' = "wait"
            /\ shTimer' = StopGraceSeconds
            /\ UNCHANGED shMain
       ELSE /\ shMain' = "crashed"
            /\ UNCHANGED <<shAlive, shStopPhase, shTimer>>
    /\ UNCHANGED <<shCtxDone, shLoop, shCmd, shStopIdx, shStartReturned,
                   shRecovery>>

\* Stop, case <-done: r.recordCmd.Wait() of the helper goroutine returned,
\* with an error at once on a command that was not started, when the
\* process has exited otherwise.
shStopDone(k) ==
    /\ shMain = "stopping"
    /\ k = StopKinds[shStopIdx]
    /\ shStopPhase = "wait"
    /\ shCmd[k] = "started" => ~shAlive[k]
    /\ shStopAdvance
    /\ UNCHANGED <<shCtxDone, shLoop, shCmd, shAlive, shStartReturned,
                   shRecovery>>

\* Stop, case <-time.After(5 * time.Second): r.recordCmd.Process.Kill(), on
\* the command the field holds now, and on without waiting.
shStopTimeout(k) ==
    /\ shMain = "stopping"
    /\ k = StopKinds[shStopIdx]
    /\ shStopPhase = "wait"
    /\ shTimer = 0
    /\ IF shCmd[k] = "started"
       THEN /\ shAlive' = [shAlive EXCEPT ![k] = FALSE]
            /\ shStopAdvance
       ELSE /\ shMain' = "crashed"
            /\ UNCHANGED <<shAlive, shStopIdx, shStopPhase, shTimer>>
    /\ UNCHANGED <<shCtxDone, shLoop, shCmd, shStartReturned, shRecovery>>

\* main, case <-done: wg.Wait() returned, every goroutine of the wait
\* group having returned.
shWaitGroupDone ==
    /\ shMain = "waiting"
    /\ shStartReturned
    /\ shRecovery = "gone"
    /\ shMain' = "complete"
    /\ UNCHANGED <<shCtxDone, shLoop, shCmd, shAlive, shStopIdx, shStopPhase,
                   shTimer, shStartReturned, shRecovery>>

\* main, case <-time.After(10 * time.Second)
shWaitGroupTimeout ==
    /\ shMain = "waiting"
    /\ shTimer = 0
    /\ shMain' = "complete"
    /\ UNCHANGED <<shCtxDone, shLoop, shCmd, shAlive, shStopIdx, shStopPhase,
                   shTimer, shStartReturned, shRecovery>>

\* A second passes on the timer main is selecting on.
shTick ==
    /\ shMain \in {"stopping", "waiting"}
    /\ shTimer > 0
    /\ shTimer' = shTimer - 1
    /\ UNCHANGED <<shMain, shCtxDone, shLoop, shCmd, shAlive, shStopIdx,
                   shStopPhase, shStartReturned, shRecovery>>

shLoopSelectStep ==
    /\ \E k \in Kinds, exhausted \in BOOLEAN : shLoopSelect(k, exhausted)
    /\ UNCHANGED notShutVars

shLoopBuildStep == (\E k \in Kinds : shLoopBuild(k)) /\ UNCHANGED notShutVars

shLoopStartStep == (\E k \in Kinds : shLoopStart(k)) /\ UNCHANGED notShutVars

shLoopWaitStep == (\E k \in Kinds : shLoopWait(k)) /\ UNCHANGED notShutVars

shTranscoderExitsStep ==
    (\E k \in Kinds : shTranscoderExits(k)) /\ UNCHANGED notShutVars

shWatcherKillStep ==
    (\E k \in Kinds : shWatcherKill(k)) /\ UNCHANGED notShutVars

shStartReturnsStep == shStartReturns /\ UNCHANGED notShutVars

shRecoveryRestartStep == shRecoveryRestart /\ UNCHANGED notShutVars

shRecoveryTierOverStep == shRecoveryTierOver /\ UNCHANGED notShutVars

shRecoveryReturnsStep == shRecoveryReturns /\ UNCHANGED notShutVars

shSignalReceivedStep == shSignalReceived /\ UNCHANGED notShutVars

shStopCheckStep == (\E k \in Kinds : shStopCheck(k)) /\ UNCHANGED notShutVars

shStopSignalStep ==
    /\ \E k \in Kinds, heeds \in BOOLEAN : shStopSignal(k, heeds)
    /\ UNCHANGED notShutVars

shStopDoneStep == (\E k \in Kinds : shStopDone(k)) /\ UNCHANGED notShutVars

shStopTimeoutStep ==
    (\E k \in Kinds : shStopTimeout(k)) /\ UNCHANGED notShutVars

shWaitGroupDoneStep == shWaitGroupDone /\ UNCHANGED notShutVars

shWaitGroupTimeoutStep == shWaitGroupTimeout /\ UNCHANGED notShutVars

shTickStep == shTick /\ UNCHANGED notShutVars

ShutNext ==
    \/ shLoopSelectStep
    \/ shLoopBuildStep
    \/ shLoopStartStep
    \/ shLoopWaitStep
    \/ shTranscoderExitsStep
    \/ shWatcherKillStep
    \/ shStartReturnsStep
    \/ shRecoveryRestartStep
    \/ shRecoveryTierOverStep
    \/ shRecoveryReturnsStep
    \/ shSignalReceivedStep
    \/ shStopCheckStep
    \/ shStopSignalStep
    \/ shStopDoneStep
    \/ shStopTimeoutStep
    \/ shWaitGroupDoneStep
    \/ shWaitGroupTimeoutStep
    \/ shTickStep

(***************************************************************************)
(*    SESSIONS OF THE WEB UI (internal/auth, internal/webui: Start)        *)
(*                                                                         *)
(* The routes registered with authentication enabled, the session store    *)
(* and the requests in flight.  Every request is served by a goroutine of  *)
(* its own; the store is locked per call, not per request.  Clock in       *)
(* minutes.                                                                *)
(***************************************************************************)

\* Requests in flight at once, session ids that can be handed out, and the
\* last instant explored.
MaxRequests == 2
MaxSessions == 1
MaxAuthClock == 5

\* timeoutMinutes = 60 in NewSessionManager
DefaultSessionMinutes == 60

\* time.NewTicker(5 * time.Minute) in cleanupExpiredSessions
SweepMinutes == 5

NoSession == -1
NoCookie == 0

AuthRequests == 1..MaxRequests
SessionIds == 1..MaxSessions

\* Paths asked for: the three public routes, one of the routes registered
\* through requireAuth, and a path only the pattern "/" matches.
PublicRoutes == {"/login", "/logout", "/health"}
AuthRoutes == PublicRoutes \cup {"/api/status", "/other"}

SessionTimeoutChoices == {0, 1}

\* NewSessionManager: the timeout in force
sessionTimeout(minutes) ==
    IF minutes <= 0 THEN DefaultSessionMinutes ELSE minutes

\* SessionManager.ValidateSession at instant t
ValidateSession(store, id, t) ==
    /\ id \in DOMAIN store
    /\ store[id] # NoSession
    /\ ~(t > store[id])

\* SessionManager.RefreshSession at instant t
RefreshSession(store, id, t, timeout) ==
    IF id \in DOMAIN store /\ store[id] # NoSession
    THEN [store EXCEPT ![id] = t + timeout]
    ELSE store

\* SessionManager.DestroySession
DestroySession(store, id) ==
    IF id \in DOMAIN store THEN [store EXCEPT ![id] = NoSession] ELSE store

\* The ids whose session the instant t lies after.
Expired(store, t) == {id \in DOMAIN store : store[id] # NoSession /\ t > store[id]}

\* NewServer with authentication enabled: an empty store, no request.
AuthInit ==
    /\ anow = 0
    /\ timeoutMinutes \in SessionTimeoutChoices
    /\ sessions = [id \in SessionIds |-> NoSession]
    /\ issued = 0
    /\ lastSweep = 0
    /\ reqPc = [r \in AuthRequests |-> "idle"]
    /\ reqRoute = [r \in AuthRequests |-> ""]
    /\ reqCookie = [r \in AuthRequests |-> NoCookie]
    /\ retired = {}
    /\ served = "none"

\* A request arrives and the mux picks its handler.  Its cookie is absent
\* or names any id: one handed out, one not yet, or one never handed out.
requestArrives(r, route, cookie) ==
    /\ reqPc[r] = "idle"
    /\ reqPc' = [reqPc EXCEPT ![r] = "routed"]
    /\ reqRoute' = [reqRoute EXCEPT ![r] = route]
    /\ reqCookie' = [reqCookie EXCEPT ![r] = cookie]
    /\ UNCHANGED <<anow, timeoutMinutes, sessions, issued, lastSweep, retired,
                   served>>

\* The request is answered.
Answer(r, answer) ==
    /\ served' = answer
    /\ reqPc' = [reqPc EXCEPT ![r] = "idle"]
    /\ reqRoute' = [reqRoute EXCEPT ![r] = ""]
    /\ reqCookie' = [reqCookie EXCEPT ![r] = NoCookie]

\* handleHealth
handleHealth(r) ==
    /\ reqPc[r] = "routed"
    /\ reqRoute[r] = "/health"
    /\ Answer(r, "200 OK")
    /\ UNCHANGED <<anow, timeoutMinutes, sessions, issued, lastSweep, retired>>

\* handleLogin on a POST: with good credentials CreateSession stores a
\* session under a new random id and the answer carries it as a cookie.
handleLogin(r, authenticated) ==
    /\ reqPc[r] = "routed"
    /\ reqRoute[r] = "/login"
    /\ IF authenticated /\ issued < MaxSessions
       THEN /\ issued' = issued + 1
            /\ sessions' = [sessions EXCEPT ![issued + 1] =
                               anow + sessionTimeout(timeoutMinutes)]
            /\ Answer(r, "logged in")
       ELSE /\ Answer(r, "401")
            /\ UNCHANGED <<sessions, issued>>
    /\ UNCHANGED <<anow, timeoutMinutes, lastSweep, retired>>

\* handleLogout: DestroySession on the cookie's id, redirect to /login
handleLogout(r) ==
    /\ reqPc[r] = "routed"
    /\ reqRoute[r] = "/logout"
    /\ IF reqCookie[r] # NoCookie
       THEN /\ sessions' = DestroySession(sessions, reqCookie[r])
            /\ retired' = IF reqCookie[r] \in Expired(sessions, anow)
                             \/ ValidateSession(sessions, reqCookie[r], anow)
                          THEN retired \cup {reqCookie[r]}
                          ELSE retired
       ELSE UNCHANGED <<sessions, retired>>
    /\ Answer(r, "redirect /login")
    /\ UNCHANGED <<anow, timeoutMinutes, issued, lastSweep>>

\* AuthMiddleware up to ValidateSession: without a cookie or with a
\* session that is not valid the request is redirected to /login.
authCheck(r) ==
    /\ reqPc[r] = "routed"
    /\ reqRoute[r] \notin PublicRoutes
    /\ IF reqCookie[r] # NoCookie
          /\ ValidateSession(sessions, reqCookie[r], anow)
       THEN /\ reqPc' = [reqPc EXCEPT ![r] = "validated"]
            /\ UNCHANGED <<reqRoute, reqCookie, served>>
       ELSE Answer(r, "redirect /login")
    /\ UNCHANGED <<anow, timeoutMinutes, sessions, issued, lastSweep, retired>>

\* AuthMiddleware after the check: RefreshSession, then next(w, r), the
\* handler of the route.
authRefreshAndServe(r) ==
    /\ reqPc[r] = "validated"
    /\ sessions' = RefreshSession(sessions, reqCookie[r], anow,
                                  sessionTimeout(timeoutMinutes))
    /\ Answer(r, "handler")
    /\ UNCHANGED <<anow, timeoutMinutes, issued, lastSweep, retired>>

\* cleanupExpiredSessions: a tick of its five-minute ticker
cleanupExpiredSessions ==
    /\ anow >= lastSweep + SweepMinutes
    /\ lastSweep' = anow
    /\ sessions' = [id \in SessionIds |->
                       IF id \in Expired(sessions, anow) THEN NoSession
                       ELSE sessions[id]]
    /\ UNCHANGED <<anow, timeoutMinutes, issued, reqPc, reqRoute, reqCookie,
                   retired, served>>

\* A minute passes; the sessions it carries past their expiry are noted.
authTick ==
    /\ anow < MaxAuthClock
    /\ anow < lastSweep + SweepMinutes
    /\ anow' = anow + 1
    /\ retired' = retired \cup Expired(sessions, anow + 1)
    /\ UNCHANGED <<timeoutMinutes, sessions, issued, lastSweep, reqPc,
                   reqRoute, reqCookie, served>>

requestArrivesStep ==
    /\ \E r \in AuthRequests, route \in AuthRoutes,
          cookie \in {NoCookie} \cup SessionIds \cup {MaxSessions + 1} :
          requestArrives(r, route, cookie)
    /\ UNCHANGED notAuthVars

handleHealthStep ==
    (\E r \in AuthRequests : handleHealth(r)) /\ UNCHANGED notAuthVars

handleLoginStep ==
    /\ \E r \in AuthRequests, authenticated \in BOOLEAN :
          handleLogin(r, authenticated)
    /\ UNCHANGED notAuthVars

handleLogoutStep ==
    (\E r \in AuthRequests : handleLogout(r)) /\ UNCHANGED notAuthVars

authCheckStep ==
    (\E r \in AuthRequests : authCheck(r)) /\ UNCHANGED notAuthVars

authRefreshAndServeStep ==
    (\E r \in AuthRequests : authRefreshAndServe(r)) /\ UNCHANGED notAuthVars

cleanupExpiredSessionsStep == cleanupExpiredSessions /\ UNCHANGED notAuthVars

authTickStep == authTick /\ UNCHANGED notAuthVars

AuthNext ==
    \/ requestArrivesStep
    \/ handleHealthStep
    \/ handleLoginStep
    \/ handleLogoutStep
    \/ authCheckStep
    \/ authRefreshAndServeStep
    \/ cleanupExpiredSessionsStep
    \/ authTickStep

(***************************************************************************)
(*                            SPECIFICATIONS                               *)
(***************************************************************************)

\* The retention manager at rest, while the recovery controller is studied.
RetentionIdle ==
    /\ clock = FirstClock
    /\ tzOffset = 0
    /\ storage = [RetentionDays |-> 0]
    /\ partitions = {}
    /\ otherUsed = 0
    /\ lastAlertLevel = DiskAlertNone
    /\ lastAlertTime = NeverAlerted
    /\ passLog = NoPass
    /\ scanDay = NoScan
    /\ lastLevel = NoLevel

\* The recovery controller at rest, while the retention manager is studied.
RecoveryIdle ==
    /\ now = 0
    /\ config = DefaultRecoveryConfig
    /\ nextTick = config.HealthCheckInterval
    /\ pending = {}
    /\ lastSegment = [c \in RecoveryCameras |-> ZeroTime]
    /\ failureDetectedAt = [c \in RecoveryCameras |-> ZeroTime]
    /\ recoveryAttempts = [c \in RecoveryCameras |-> <<>>]
    /\ tickLog = [c \in RecoveryCameras |-> NoLog]
    /\ powerCycles = [c \in RecoveryCameras |-> {}]
    /\ episode = [c \in RecoveryCameras |-> <<>>]
    /\ capped = [c \in RecoveryCameras |-> FALSE]

\* The date folders at rest.
FolderIdle ==
    /\ wall = Midnight - FolderLead
    /\ folders = {}
    /\ newest = [d \in FolderDays |-> 0]
    /\ ffmpeg = "off"
    /\ wakers = {}
    /\ probed = NoProbe
    /\ lostSegment = FALSE

\* The recordings API at rest.
TimelineIdle ==
    /\ files = {}
    /\ segmentDuration = TimelineSegmentSeconds
    /\ timeline = NoTimeline
    /\ listed = {}
    /\ playlistTarget = 0
    /\ segmentTime = 0

\* No recorder being stopped.
StopScenarioIdle ==
    /\ sclock = 0
    /\ ctxDone = FALSE
    /\ driver = [k \in Kinds |-> "select"]
    /\ cmdState = [k \in Kinds |-> "nil"]
    /\ alive = [k \in Kinds |-> FALSE]
    /\ signals = [k \in Kinds |-> <<>>]
    /\ watcherFired = [k \in Kinds |-> FALSE]
    /\ stopIdx = StopIdle
    /\ stopPhase = "check"
    /\ interruptAt = 0

\* The locks of the recovery controller at rest.
LockIdle ==
    /\ lclock = 0
    /\ lpasses = 0
    /\ lpc = "idle"
    /\ lcur = "none"
    /\ lpending = {}
    /\ mapReaders = 0
    /\ stateLocked = [c \in LockCameras |-> FALSE]
    /\ checkStarted = [c \in LockCameras |-> NotChecked]

\* The smart-plug adapter with no caller.
PlugIdle ==
    /\ plugOp = [g \in PlugCallers |-> "none"]
    /\ plugPc = [g \in PlugCallers |-> "idle"]
    /\ plugMutex = "none"
    /\ plugOn = TRUE
    /\ plugSeen = [g \in PlugCallers |-> "none"]
    /\ plugCalls = 0

\* The recording file routes with no request made.
RouteIdle ==
    /\ fsFiles = {}
    /\ request = NoRequest
    /\ response = NoResponse

\* No partition under deletion.
IndexIdle ==
    /\ ixFiles = {}
    /\ ixDir = FALSE
    /\ ixRemover = "idle"
    /\ ixReader = "idle"
    /\ ixRoute = "none"
    /\ ixGlobbed = {}
    /\ ixSeen = {}
    /\ ixAnswer = NoAnswer
    /\ ixRequests = 0

\* The retry loops not started.
RetryIdle ==
    /\ maxRetries = 0
    /\ retryCount = [k \in Kinds |-> 0]
    /\ loopPc = [k \in Kinds |-> "select"]
    /\ exitWhy = [k \in Kinds |-> "none"]
    /\ spawns = [k \in Kinds |-> 0]
    /\ loopCtxDone = FALSE
    /\ folderHelpers = 0

\* No configuration file being loaded.
ConfigIdle ==
    /\ cfgFile = [SegmentDuration |-> 60,
                  written |-> [f \in RecoveryFields |-> TRUE]]
    /\ cfgPc = "file"
    /\ loadedRecovery = ZeroRecovery
    /\ tickerPeriod = 0

\* The process not yet through its startup.
ProcIdle ==
    /\ procRecovery = [Enabled |-> FALSE, HealthCheckInterval |-> 0]
    /\ procPc = "waiting"
    /\ recoveryPc = "off"
    /\ exitCause = "none"
    /\ sigPending = "none"
    /\ loopsRunning = 0
    /\ failuresLogged = {}

\* The detection model not started.
DetectIdle ==
    /\ dnow = 0
    /\ dFolders = {}
    /\ dNewest = <<>>
    /\ producing = FALSE
    /\ dDetectedAt = 0
    /\ dRecoveryStarted = FALSE
    /\ dTurn = "off"

\* No generation started.
GenIdle ==
    /\ gclock = 0
    /\ parentDone = FALSE
    /\ curGen = 0
    /\ genDone = <<>>
    /\ gdriver = <<>>
    /\ galive = <<>>
    /\ restartPc = "off"
    /\ pauseUntil = 0

\* The shutdown model not started.
ShutIdle ==
    /\ shMain = "off"
    /\ shCtxDone = FALSE
    /\ shLoop = <<>>
    /\ shCmd = <<>>
    /\ shAlive = <<>>
    /\ shStopIdx = 0
    /\ shStopPhase = "off"
    /\ shTimer = 0
    /\ shStartReturned = FALSE
    /\ shRecovery = "off"

\* The web UI not started.
AuthIdle ==
    /\ anow = 0
    /\ timeoutMinutes = 0
    /\ sessions = <<>>
    /\ issued = 0
    /\ lastSweep = 0
    /\ reqPc = <<>>
    /\ reqRoute = <<>>
    /\ reqCookie = <<>>
    /\ retired = {}
    /\ served = "off"

\* The process after main has built the recovery manager.
InitRecovery ==
    RecoveryInit /\ RetentionIdle /\ FolderIdle /\ TimelineIdle /\ StopScenarioIdle /\ LockIdle /\ PlugIdle /\ RouteIdle /\ IndexIdle /\ RetryIdle /\ ConfigIdle /\ ProcIdle /\ DetectIdle /\ GenIdle /\ ShutIdle /\ AuthIdle

SpecRecovery == InitRecovery /\ [][RecoveryNext]_vars

\* The process after main has built the storage cleaner.
InitRetention ==
    RetentionInit /\ RecoveryIdle /\ FolderIdle /\ TimelineIdle /\ StopScenarioIdle /\ LockIdle /\ PlugIdle /\ RouteIdle /\ IndexIdle /\ RetryIdle /\ ConfigIdle /\ ProcIdle /\ DetectIdle /\ GenIdle /\ ShutIdle /\ AuthIdle

SpecRetention == InitRetention /\ [][RetentionNext]_vars

\* A recorder started shortly before midnight.
InitFolders ==
    FolderInit /\ RecoveryIdle /\ RetentionIdle /\ TimelineIdle /\ StopScenarioIdle /\ LockIdle /\ PlugIdle /\ RouteIdle /\ IndexIdle /\ RetryIdle /\ ConfigIdle /\ ProcIdle /\ DetectIdle /\ GenIdle /\ ShutIdle /\ AuthIdle

SpecFolders == InitFolders /\ [][FolderNext]_vars

\* The web UI serving one date folder.
InitTimeline ==
    TimelineInit /\ RecoveryIdle /\ RetentionIdle /\ FolderIdle /\ StopScenarioIdle /\ LockIdle /\ PlugIdle /\ RouteIdle /\ IndexIdle /\ RetryIdle /\ ConfigIdle /\ ProcIdle /\ DetectIdle /\ GenIdle /\ ShutIdle /\ AuthIdle

SpecTimeline == InitTimeline /\ [][TimelineNext]_vars

\* A recorder whose Start has just launched its driver loops.
InitStop ==
    StopInit /\ RecoveryIdle /\ RetentionIdle /\ FolderIdle /\ TimelineIdle /\ LockIdle /\ PlugIdle /\ RouteIdle /\ IndexIdle /\ RetryIdle /\ ConfigIdle /\ ProcIdle /\ DetectIdle /\ GenIdle /\ ShutIdle /\ AuthIdle

SpecStop == InitStop /\ [][StopNext]_vars

\* The recovery manager waiting for the first tick of its health-check ticker.
InitLock ==
    LockInit /\ RetentionIdle /\ RecoveryIdle /\ FolderIdle /\ TimelineIdle /\ StopScenarioIdle /\ PlugIdle /\ RouteIdle /\ IndexIdle /\ RetryIdle /\ ConfigIdle /\ ProcIdle /\ DetectIdle /\ GenIdle /\ ShutIdle /\ AuthIdle

SpecLock == InitLock /\ [][LockNext]_vars

\* A smart plug just built by NewSmartPlug, the camera powered.
InitPlug ==
    PlugInit /\ RetentionIdle /\ RecoveryIdle /\ FolderIdle /\ TimelineIdle /\ StopScenarioIdle /\ LockIdle /\ RouteIdle /\ IndexIdle /\ RetryIdle /\ ConfigIdle /\ ProcIdle /\ DetectIdle /\ GenIdle /\ ShutIdle /\ AuthIdle

SpecPlug == InitPlug /\ [][PlugNext]_vars

\* The web UI serving the recordings of a deployment.
InitRoute ==
    RouteInit /\ RetentionIdle /\ RecoveryIdle /\ FolderIdle /\ TimelineIdle /\ StopScenarioIdle /\ LockIdle /\ PlugIdle /\ IndexIdle /\ RetryIdle /\ ConfigIdle /\ ProcIdle /\ DetectIdle /\ GenIdle /\ ShutIdle /\ AuthIdle

SpecRoute == InitRoute /\ [][RouteNext]_vars

\* A date partition past the retention horizon, with its segments, as a cleaner pass and the web UI reach it.
InitIndex ==
    IndexInit /\ RetentionIdle /\ RecoveryIdle /\ FolderIdle /\ TimelineIdle /\ StopScenarioIdle /\ LockIdle /\ PlugIdle /\ RouteIdle /\ RetryIdle /\ ConfigIdle /\ ProcIdle /\ DetectIdle /\ GenIdle /\ ShutIdle /\ AuthIdle

SpecIndex == InitIndex /\ [][IndexNext]_vars

\* Recorder.Start has launched startRecording and startLiveStream.
InitRetry ==
    RetryInit /\ RetentionIdle /\ RecoveryIdle /\ FolderIdle /\ TimelineIdle /\ StopScenarioIdle /\ LockIdle /\ PlugIdle /\ RouteIdle /\ IndexIdle /\ ConfigIdle /\ ProcIdle /\ DetectIdle /\ GenIdle /\ ShutIdle /\ AuthIdle

SpecRetry == InitRetry /\ [][RetryNext]_vars

\* main about to call config.Load on the file named on the command line.
InitConfig ==
    ConfigInit /\ RetentionIdle /\ RecoveryIdle /\ FolderIdle /\ TimelineIdle /\ StopScenarioIdle /\ LockIdle /\ PlugIdle /\ RouteIdle /\ IndexIdle /\ RetryIdle /\ ProcIdle /\ DetectIdle /\ GenIdle /\ ShutIdle /\ AuthIdle

SpecConfig == InitConfig /\ [][ConfigNext]_vars

\* main blocked on sigChan, startup done.
InitProc ==
    ProcInit /\ RetentionIdle /\ RecoveryIdle /\ FolderIdle /\ TimelineIdle /\ StopScenarioIdle /\ LockIdle /\ PlugIdle /\ RouteIdle /\ IndexIdle /\ RetryIdle /\ ConfigIdle /\ DetectIdle /\ GenIdle /\ ShutIdle /\ AuthIdle

SpecProc == InitProc /\ [][ProcNext]_vars

\* One recorder started by main, restarted by the recovery manager.
InitGen ==
    GenInit /\ RetentionIdle /\ RecoveryIdle /\ FolderIdle /\ TimelineIdle /\ StopScenarioIdle /\ LockIdle /\ PlugIdle /\ RouteIdle /\ IndexIdle /\ RetryIdle /\ ConfigIdle /\ ProcIdle /\ DetectIdle /\ ShutIdle /\ AuthIdle

SpecGen == InitGen /\ [][GenNext]_vars

\* The web UI with authentication enabled.
InitAuth ==
    AuthInit /\ RetentionIdle /\ RecoveryIdle /\ FolderIdle /\ TimelineIdle /\ StopScenarioIdle /\ LockIdle /\ PlugIdle /\ RouteIdle /\ IndexIdle /\ RetryIdle /\ ConfigIdle /\ ProcIdle /\ DetectIdle /\ GenIdle /\ ShutIdle

SpecAuth == InitAuth /\ [][AuthNext]_vars

\* The running process before a shutdown signal.
InitShut ==
    ShutInit /\ RetentionIdle /\ RecoveryIdle /\ FolderIdle /\ TimelineIdle /\ StopScenarioIdle /\ LockIdle /\ PlugIdle /\ RouteIdle /\ IndexIdle /\ RetryIdle /\ ConfigIdle /\ ProcIdle /\ DetectIdle /\ GenIdle /\ AuthIdle

\* The goroutine of main is scheduled whenever it can take a step, and the
\* timers it selects on run down.
SpecShut ==
    /\ InitShut
    /\ [][ShutNext]_vars
    /\ WF_vars(shStopCheckStep)
    /\ WF_vars(shStopSignalStep)
    /\ WF_vars(shStopDoneStep)
    /\ WF_vars(shStopTimeoutStep)
    /\ WF_vars(shWaitGroupDoneStep)
    /\ WF_vars(shWaitGroupTimeoutStep)
    /\ WF_vars(shTickStep)

\* A recording camera watched by the recovery manager.
InitDetect ==
    DetectInit /\ RetentionIdle /\ RecoveryIdle /\ FolderIdle /\ TimelineIdle /\ StopScenarioIdle /\ LockIdle /\ PlugIdle /\ RouteIdle /\ IndexIdle /\ RetryIdle /\ ConfigIdle /\ ProcIdle /\ GenIdle /\ ShutIdle /\ AuthIdle

\* Time does not stop, and the ticker of RecoveryManager.Start fires as long
\* as the manager runs.
SpecDetect ==
    /\ InitDetect
    /\ [][DetectNext]_vars
    /\ WF_vars(timePassesStep)
    /\ WF_vars(detectTickStep)

(***************************************************************************)
(*                    PROPERTIES OF THE RECOVERY CONTROLLER                *)
(***************************************************************************)

\* This step is a checkCamera of camera c.
Checked(c) == c \in pending /\ c \notin pending'

InEpisode(c, tier) == \E i \in DOMAIN episode[c] : episode[c][i] = tier

Stale(last, t, cfg) == last # ZeroTime /\ t - last >= cfg.StaleThreshold

\* C1: a service_restart is executed only after a goroutine (pipeline)
\* restart was attempted in the same failure episode, and a power_cycle only
\* after a service_restart was attempted in the same failure episode.
C1_TierOrder ==
    [][\A c \in RecoveryCameras :
          Checked(c) =>
             /\ tickLog'[c].tier = "service_restart"
                   => InEpisode(c, "goroutine_restart")
             /\ tickLog'[c].tier = "power_cycle"
                   => InEpisode(c, "service_restart")]_vars

\* C1 witness: a power cycle was executed at the end of the full ladder.
C1_Witness ==
    \E c \in RecoveryCameras :
        /\ tickLog[c].tier = "power_cycle"
        /\ episode[c] = Tiers

\* C2: at every moment the power cycles executed for a camera in the
\* preceding 30 minutes number at most max_power_cycles_per_30min.
C2_PowerCycleCap ==
    \A c \in RecoveryCameras :
        Cardinality({t \in powerCycles[c] : t > now - PowerCycleWindow})
            <= config.MaxPowerCyclesPer30Min

C9_RecoveryResets ==
    [][\A c \in RecoveryCameras :
          (Checked(c) /\ Healthy(tickLog'[c].seen, now, config)) =>
             IF failureDetectedAt[c] # ZeroTime
             THEN /\ tickLog'[c].alerts = <<"recovered">>
                  /\ failureDetectedAt'[c] = ZeroTime
                  /\ recoveryAttempts'[c] = <<>>
             ELSE /\ tickLog'[c].alerts = <<>>
                  /\ tickLog'[c].tier = "none"
                  /\ failureDetectedAt'[c] = failureDetectedAt[c]
                  /\ recoveryAttempts'[c] = recoveryAttempts[c]]_vars

\* C9 witness: a camera observed recovered after its power cycle.
C9_Witness ==
    \E c \in RecoveryCameras :
        /\ tickLog[c].alerts = <<"recovered">>
        /\ powerCycles[c] # {}
        /\ failureDetectedAt[c] = ZeroTime
        /\ recoveryAttempts[c] = <<>>

NoTierTwice(attempts) ==
    \A i, j \in DOMAIN attempts :
        attempts[i].Action = attempts[j].Action => i = j

AllTiersRecorded(attempts) ==
    \A k \in DOMAIN Tiers : hasAttempted(attempts, Tiers[k])

C11_CapStopsRecovery ==
    [][\A c \in RecoveryCameras :
          Checked(c) =>
             LET seen     == tickLog'[c].seen
                 fda      == failureDetectedAt[c]
                 verified == /\ Stale(seen, now, config)
                             /\ fda # ZeroTime
                             /\ now - fda >= config.VerificationDelay
                 atCap    == countRecentAttempts(recoveryAttempts[c],
                                 "power_cycle", PowerCycleWindow, now)
                                 >= config.MaxPowerCyclesPer30Min
             IN  /\ (verified /\ atCap)
                       => /\ tickLog'[c].alerts = <<"max_power_cycles">>
                          /\ tickLog'[c].tier = "none"
                          /\ recoveryAttempts'[c] = recoveryAttempts[c]
                          /\ powerCycles'[c] = powerCycles[c]
                          /\ now' = now
                 /\ capped[c]
                       => /\ tickLog'[c].tier = "none"
                          /\ powerCycles'[c] = powerCycles[c]
                          /\ Len(recoveryAttempts'[c]) <= Len(recoveryAttempts[c])]_vars

\* C11 witness: after the three tiers, the one power cycle of the episode
\* meets a cap of 1 and the check only alerts.
C11_Witness ==
    \E c \in RecoveryCameras :
        /\ config.MaxPowerCyclesPer30Min = 1
        /\ capped[c]
        /\ tickLog[c].alerts = <<"max_power_cycles">>
        /\ Len(recoveryAttempts[c]) = 3
        /\ Cardinality(powerCycles[c]) = 1

(***************************************************************************)
(*                    PROPERTIES OF THE RETENTION MANAGER                  *)
(***************************************************************************)

Passed == passLog.kind = "pass"

\* C3: a retention pass with horizon R deletes only date partitions dated
\* strictly before today - R; those dated today - R .. today all remain.
C3_DeletesOnlyBeforeHorizon ==
    (Passed /\ storage.RetentionDays >= 1) =>
        \A p \in passLog.cleanupDeleted :
            p[2] < passLog.today - storage.RetentionDays

\* C4: no retention action (scheduled cleanup, cleanup at critical level,
\* emergency prune) deletes the date partition of the current day.
C4_TodayNeverDeleted ==
    Passed =>
        \A p \in passLog.cleanupDeleted \cup passLog.emergencyDeleted :
            p[2] # passLog.today

\* C5: after a retention pass with horizon R >= 1 in which every removal
\* succeeded, no date partition dated before today - R remains, for any
\* camera.
C5_NothingOlderRemains ==
    (Passed /\ storage.RetentionDays >= 1 /\ passLog.cleanupFailed = {}) =>
        \A p \in partitions : p[2] >= passLog.today - storage.RetentionDays

\* C5 witness: a pass that removed old partitions of both cameras, all
\* removals succeeding, and left newer ones.
C5_Witness ==
    /\ Passed
    /\ storage.RetentionDays >= 1
    /\ passLog.cleanupFailed = {}
    /\ \A c \in Cameras : \E p \in passLog.cleanupDeleted : p[1] = c
    /\ partitions # {}

\* C6: when emergency prune returns and every removal it attempted
\* succeeded, available bytes are at least 10% of the total, or every
\* remaining date partition is dated today or yesterday.
C6_FloorOrOnlyRecentLeft ==
    (Passed /\ passLog.emergencyRan /\ passLog.emergencyFailed = {}) =>
        \/ floorReached(passLog.emergencyLeft)
        \/ \A p \in passLog.emergencyLeft : p[2] >= passLog.today - 1

\* C7: emergency prune never deletes the partitions dated today or
\* today - 1; only partitions dated today - 2 or older are deleted.
C7_EmergencyKeepsTwoDays ==
    Passed => \A p \in passLog.emergencyDeleted : p[2] <= passLog.today - 2

(***************************************************************************)
(*                     PROPERTIES OF THE DATE FOLDERS                      *)
(***************************************************************************)

\* C12: the last-segment probe answers with the newest segment time of
\* today's folder; when today's folder holds no segment, because it is
\* missing or because it is there but empty, it answers with the newest
\* segment time of yesterday's folder; it answers zero only when neither
\* folder yields a segment.
C12_ProbeFallsBackToYesterday ==
    [][probed' # probed =>
          LET today     == DayOf(wall)
              yesterday == DayOf(wall - SecondsPerDay)
          IN  probed'.result =
                 IF today \in folders /\ newest[today] # 0 THEN newest[today]
                 ELSE IF yesterday \in folders THEN newest[yesterday]
                 ELSE 0]_vars

\* C13: while the archive transcoder runs, the date folder of the current
\* day exists at every instant, midnight included, whatever the time of day
\* at which the recorder was started or restarted; no segment is lost for
\* want of a folder.
C13_FolderReadyAtMidnight ==
    /\ ffmpeg = "running" => DayOf(wall) \in folders
    /\ ~lostSegment

(***************************************************************************)
(*                    PROPERTIES OF THE RECORDINGS API                     *)
(***************************************************************************)

\* The open intervals of the day that no reported segment touches and that
\* cannot be extended: from the day start or a segment end to a segment
\* start or the day end.
MaximalUncovered(segments) ==
    LET idx    == DOMAIN segments
        lefts  == {0} \cup {segments[i].EndTime : i \in idx}
        rights == {segments[i].StartTime : i \in idx} \cup {DayEnd}
    IN  {ab \in lefts \X rights :
            /\ ab[1] < ab[2]
            /\ \A i \in idx : \/ segments[i].EndTime <= ab[1]
                               \/ segments[i].StartTime >= ab[2]}

C15_TwoSegmentsExample ==
    (timeline.served /\ files = {36000, 37800}) =>
        /\ Len(timeline.segments) = 2
        /\ timeline.gaps =
              <<[StartTime |-> 0, EndTime |-> 36000, DurationMins |-> 600],
                [StartTime |-> 39600, EndTime |-> DayEnd, DurationMins |-> 780]>>
        /\ timeline.recordedMinutes = 60

\* C16: a gap is reported at the day start, between two consecutive
\* segments, and at the day end exactly when that interval is strictly
\* longer than two minutes; an interval of exactly 120 seconds or a
\* negative one is no gap; nothing else is reported.
C16_GapIffOverTwoMinutes ==
    (timeline.served /\ files # {}) =>
        LET segments == timeline.segments
            m        == Len(segments)
            reported == {<<timeline.gaps[i].StartTime, timeline.gaps[i].EndTime>> :
                            i \in DOMAIN timeline.gaps}
            places   == {<<0, segments[1].StartTime>>,
                         <<segments[m].EndTime, DayEnd>>}
                        \cup {<<segments[i].EndTime, segments[i + 1].StartTime>> :
                                 i \in 1..(m - 1)}
        IN  /\ \A pl \in places :
                  pl \in reported <=> pl[2] - pl[1] > GapThresholdSeconds
            /\ reported \subseteq places
            /\ Len(timeline.gaps) = Cardinality(reported)

\* C16 witness: segments at 08:00:00 and 08:45:00; the gap between them is
\* 08:30:00 to 08:45:00, 15 minutes.
C16_Witness ==
    /\ timeline.served
    /\ files = {28800, 31500}
    /\ Len(timeline.gaps) = 3
    /\ timeline.gaps[2] =
          [StartTime |-> 30600, EndTime |-> 31500, DurationMins |-> 15]

\* C17: a timeline segment whose start plus the 30-minute segment length
\* reaches or crosses the day boundary ends at 23:59:59; every other segment
\* ends at start plus the segment length; no end precedes its start.
C17_EndClamped ==
    timeline.served =>
        \A i \in DOMAIN timeline.segments :
            LET seg == timeline.segments[i]
            IN  /\ seg.StartTime + TimelineSegmentSeconds >= SecondsPerDay
                      => seg.EndTime = DayEnd
                /\ seg.StartTime + TimelineSegmentSeconds < SecondsPerDay
                      => seg.EndTime = seg.StartTime + TimelineSegmentSeconds
                /\ seg.EndTime >= seg.StartTime

\* C17 witness: a segment starting 23:45:00 reported as ending 23:59:59,
\* next to one that starts 23:30:00 and one that ends at 08:30:00.
C17_Witness ==
    /\ timeline.served
    /\ files = {28800, 84600, 85500}
    /\ timeline.segments[1].EndTime = 30600
    /\ timeline.segments[2].EndTime = DayEnd
    /\ timeline.segments[3].EndTime = DayEnd

\* C18: the segment time handed to the archive transcoder, the
\* duration_seconds of the recordings list, the length of a timeline segment
\* that stays inside the day, and the target duration of the playlist all
\* equal the configured storage.segment_duration.
C18_ConfiguredSegmentDuration ==
    /\ segmentTime # 0 => segmentTime = segmentDuration
    /\ \A d \in listed : d = segmentDuration
    /\ playlistTarget # 0 => playlistTarget = segmentDuration
    /\ timeline.served =>
          \A i \in DOMAIN timeline.segments :
              LET seg == timeline.segments[i]
              IN  seg.EndTime # DayEnd
                     => seg.EndTime - seg.StartTime = segmentDuration

(***************************************************************************)
(*                   PROPERTIES OF STOPPING A RECORDER                     *)
(***************************************************************************)

\* C19: once the recorder's context is cancelled, a transcoder process is
\* sent a hard kill only after a polite interrupt, and only when it has not
\* exited five seconds after that interrupt.
C19_InterruptThenKillAfterFive ==
    \A k \in Kinds : \A i \in DOMAIN signals[k] :
        signals[k][i].sig = "kill" =>
            \E j \in 1..(i - 1) :
                /\ signals[k][j].sig = "interrupt"
                /\ signals[k][i].at >= signals[k][j].at + StopGraceSeconds

\* C20: at the moment Recorder.Stop returns, neither the archive transcoder
\* nor the live transcoder of the camera is running, whatever the two driver
\* loops were doing meanwhile.
C20_StopLeavesNoProcess ==
    [][(stopIdx # StopReturned /\ stopIdx' = StopReturned)
          => \A k \in Kinds : ~alive'[k]]_vars

(***************************************************************************)
(*             PROPERTIES OF THE RECOVERY CONTROLLER'S LOCKS               *)
(***************************************************************************)

\* C21: the recovery controller holds no mutex across a suspension: while
\* its goroutine is suspended inside a tier (the pause of the pipeline
\* restart, the service_restart_timeout sleep, the service restart command,
\* the power cycle, the recovery-timeout sleep) neither a camera's state
\* mutex nor the controller's map lock is held, and so no camera's check
\* starts later than the tick because of another camera's wait.
C21_NoMutexAcrossSuspension ==
    /\ lpc \in Suspended =>
          /\ mapReaders = 0
          /\ \A c \in LockCameras : ~stateLocked[c]
    /\ \A c \in LockCameras : checkStarted[c] \in {NotChecked, 0}

(***************************************************************************)
(*                 PROPERTIES OF THE SMART-PLUG ADAPTER                    *)
(***************************************************************************)

\* C22: no two smart-plug operations execute concurrently: at any time at
\* most one caller of TurnOn, TurnOff, GetStatus and PowerCycle has its
\* script talking to the outlet, so that nothing runs between the off and
\* on halves of a PowerCycle.
C22_OneOperationAtATime ==
    Cardinality({g \in PlugCallers : plugPc[g] \in PlugTalking}) <= 1

(***************************************************************************)
(*               PROPERTIES OF THE RECORDING FILE ROUTES                   *)
(***************************************************************************)

\* The canonical absolute path p lies inside the storage root.
InsideStorageRoot(p) == HasPrefix(Abs(p), BasePath \o "/")

\* C23: for every request that reaches the handler of a recording file
\* route, whatever its camera, date and file components, the handler goes
\* to a file (serves it, names it in a playlist, looks it up) only if the
\* canonical absolute path of that file lies inside the storage root;
\* otherwise it answers with a 4xx.
C23_NoEscapeFromStorageRoot ==
    response.handled =>
        /\ response.file # "" => InsideStorageRoot(response.file)
        /\ response.file = "" => response.status \in 400..499

\* C24: every recording file route answers a request whose file component
\* does not have the extension .ts with an error, even when the file
\* exists.
C24_OnlyTsFiles ==
    (response.handled /\ Ext(response.path) # ".ts") => response.status >= 400

(***************************************************************************)
(*                     PROPERTIES OF THE DISK ALERTS                       *)
(***************************************************************************)

\* The level the claim gives a filesystem with avail units free: none below
\* 80% used, warning from 80%, critical from 90%, emergency from 95%.
StatedLevel(avail) ==
    LET used == TotalBytes - avail
    IN  CASE 100 * used < 80 * TotalBytes -> 0
          [] 100 * used >= 80 * TotalBytes /\ 100 * used < 90 * TotalBytes -> 1
          [] 100 * used >= 90 * TotalBytes /\ 100 * used < 95 * TotalBytes -> 2
          [] 100 * used >= 95 * TotalBytes -> 3

\* C26: a disk-monitoring pass emits an alert if and only if the current
\* level is strictly higher than the last-sent level, or is non-zero with
\* more than one hour gone since the last alert; when it emits, the
\* last-sent level and time become the current level and time, and
\* otherwise both stay as they were.
C26_AlertIffHigherOrHourPassed ==
    [][passLog'.kind = "pass" =>
          LET level == StatedLevel(Available(partitions))
              due   == \/ level > lastAlertLevel
                       \/ /\ level > 0
                          /\ (lastAlertTime = NeverAlerted
                                 \/ clock - lastAlertTime > 1)
          IN  /\ passLog'.level = level
              /\ passLog'.alerted <=> due
              /\ due => lastAlertLevel' = level /\ lastAlertTime' = clock
              /\ ~due => UNCHANGED <<lastAlertLevel, lastAlertTime>>]_vars

\* A pass, later than the first instant, that finds the level reported by an
\* alert of the same hour and stays silent.
C26_Witness ==
    /\ Passed
    /\ ~passLog.alerted
    /\ passLog.level > DiskAlertNone
    /\ passLog.level = lastAlertLevel
    /\ lastAlertTime = clock
    /\ clock > FirstClock

(***************************************************************************)
(*                PROPERTIES OF REPEATED RETENTION SCANS                   *)
(***************************************************************************)

\* C27: with retention enabled, a retention scan that follows another scan
\* of the same day, with nothing recorded in between and every removal of
\* the first scan having succeeded, deletes nothing: the partitions after
\* it are the partitions before it.
C27_SecondScanDeletesNothing ==
    [][(passLog'.kind = "pass" /\ storage.RetentionDays >= 1 /\ scanDay = Today)
          => (passLog'.cleanupDeleted = {} /\ partitions' = partitions)]_vars

(***************************************************************************)
(*          PROPERTIES OF DELETING A PARTITION THAT IS INDEXED             *)
(***************************************************************************)

\* C28: the deletion of a date partition is atomic for the playback
\* indexer: a list or timeline request that runs while the partition is
\* deleted reports either all the segments the partition held or none,
\* never a non-empty strict subset of them.
C28_AllSegmentsOrNone ==
    ixAnswer.served => ixAnswer.segments \in {IndexSegments, {}}

(***************************************************************************)
(*                    PROPERTIES OF THE RETRY LOOPS                        *)
(***************************************************************************)

C30_OmittedOptionsGetDefaults ==
    /\ cfgPc \in {"loaded", "monitoring", "panicked"} =>
          \A f \in RecoveryFields :
              ~cfgFile.written[f] =>
                  /\ loadedRecovery[f] = DefaultRecoveryConfig[f]
                  /\ loadedRecovery[f] # 0
    /\ cfgPc # "panicked"
    /\ (cfgPc = "monitoring" /\ ~cfgFile.written["HealthCheckInterval"]) =>
          tickerPeriod = 60

(***************************************************************************)
(*                      PROPERTIES OF THE PROCESS                          *)
(***************************************************************************)

\* C25: after startup has succeeded the process exits only after SIGINT or
\* SIGTERM has been delivered or the tier-2 service restart has been issued:
\* no failure of a background component ends it.
C25_ExitsOnlyOnSignal ==
    procPc = "exited" => sigPending # "none"

(***************************************************************************)
(*                PROPERTIES OF THE WAIT BEFORE A RESPAWN                  *)
(***************************************************************************)

\* C32: in the archive and live loops every return of the transcoder
\* driver, with an error or without one, adds one to that loop's retry
\* counter and is followed by the wait of retry_delay seconds: the loop never
\* goes from a transcoder that has exited to the next start without that
\* wait in between.
C32_EveryExitCountsAndWaits ==
    [][\A k \in Kinds :
          (loopPc[k] = "running" /\ loopPc'[k] # "running") =>
              /\ retryCount'[k] = retryCount[k] + 1
              /\ loopPc'[k] = "delay"]_vars

(***************************************************************************)
(*                 PROPERTIES OF A PASS WITH A FAILED REMOVAL              *)
(***************************************************************************)

\* C33: a failure to remove one partition does not abort a retention pass.
\* After a cleanup, every partition left that the cleanup would remove is
\* one whose removal failed in this pass; after an emergency prune that
\* stopped short of the 10% floor, every partition left that the prune does
\* not spare is one whose removal failed.  A partition whose removal failed
\* is still there and is not among the deleted ones.
C33_FailureDoesNotAbortPass ==
    Passed =>
        /\ passLog.cleanupRan =>
              \A p \in partitions : cleanupEligible(p) => p \in passLog.cleanupFailed
        /\ (passLog.emergencyRan /\ ~floorReached(passLog.emergencyLeft)) =>
              \A p \in passLog.emergencyLeft :
                  ~emergencySkips(p) => p \in passLog.emergencyFailed
        /\ passLog.emergencyFailed \subseteq passLog.emergencyLeft
        /\ passLog.cleanupFailed \subseteq partitions
        /\ (passLog.emergencyFailed \cup passLog.cleanupFailed)
              \cap (passLog.emergencyDeleted \cup passLog.cleanupDeleted) = {}

\* A cleanup in which the removal of a partition of cam1 failed and a
\* partition of cam2, later in the walk, was removed all the same.
C33_Witness ==
    /\ Passed
    /\ \E f \in passLog.cleanupFailed :
       \E d \in passLog.cleanupDeleted :
           f[1] = "cam1" /\ d[1] = "cam2"

(***************************************************************************)
(*                 PROPERTIES OF THE ORDER OF THE PRUNE                    *)
(***************************************************************************)

\* C34: the emergency prune deletes oldest first across all cameras and
\* stops at the floor: no partition is deleted while an older partition
\* dated today - 2 or earlier stays without its removal having been
\* attempted; every partition it deleted was deleted with available bytes
\* still below 10% of the total; and so a prune that finds 10% available
\* when it starts deletes nothing.
C34_OldestFirstUntilFloor ==
    (Passed /\ passLog.emergencyRan) =>
        /\ \A d \in passLog.emergencyDeleted :
              /\ \A p \in passLog.emergencyLeft :
                    (p[2] < d[2] /\ p[2] <= passLog.today - 2) =>
                        p \in passLog.emergencyFailed
              /\ ~floorReached(passLog.emergencyLeft \cup {d})
        /\ floorReached(passLog.emergencyLeft \cup passLog.emergencyDeleted) =>
              passLog.emergencyDeleted = {}

\* A prune that removed the oldest day of both cameras, reached the floor
\* and left a newer day that a prune does not spare.
C34_Witness ==
    /\ Passed
    /\ passLog.emergencyRan
    /\ \A c \in Cameras : \E d \in passLog.emergencyDeleted : d[1] = c
    /\ floorReached(passLog.emergencyLeft)
    /\ \E p \in passLog.emergencyLeft :
          /\ p[2] <= passLog.today - 2
          /\ \A d \in passLog.emergencyDeleted : d[2] < p[2]

(***************************************************************************)
(*              PROPERTIES OF AN ALERT AFTER A QUIET PASS                  *)
(***************************************************************************)

\* C40: whenever one monitoring pass finds the disk alert level none and
\* the next pass finds it non-zero, that next pass emits an alert, whatever
\* alerts were sent before.
C40_AlertAfterNone ==
    [][(passLog'.kind = "pass" /\ lastLevel = DiskAlertNone
            /\ passLog'.level > DiskAlertNone)
          => passLog'.alerted]_vars

(***************************************************************************)
(*                 PROPERTIES OF A FAILED POWER CYCLE                      *)
(***************************************************************************)

\* C35: when tier 3 is executed the power_cycle attempt is appended to the
\* camera's history whether the smart-plug operation succeeds or not, so
\* that the camera has attempted power_cycle and the attempt is counted in
\* the 30-minute window when the tier returns; a smart-plug operation that
\* fails (the tier returns without the recovery wait) has also sent the
\* failure alert, after the alert that announces the power cycle.
C35_FailedPowerCycleIsRecorded ==
    [][\A c \in RecoveryCameras :
          (c \in pending /\ c \notin pending'
              /\ tickLog'[c].tier = "power_cycle") =>
              /\ recoveryAttempts'[c] =
                    Append(recoveryAttempts[c], Attempt(now, "power_cycle"))
              /\ hasAttempted(recoveryAttempts'[c], "power_cycle")
              /\ countRecentAttempts(recoveryAttempts'[c], "power_cycle",
                                     PowerCycleWindow, now') >= 1
              /\ now' = now =>
                    tickLog'[c].alerts =
                        <<"power_cycle_initiated", "power_cycle_failed">>
              /\ now' # now =>
                    tickLog'[c].alerts = <<"power_cycle_initiated">>]_vars

\* A tier 3 whose smart-plug operation failed: the failure alert is out and
\* the latest attempt of the history is the power cycle of this instant.
C35_Witness ==
    \E c \in RecoveryCameras :
        /\ c \notin pending
        /\ tickLog[c].tier = "power_cycle"
        /\ tickLog[c].alerts = <<"power_cycle_initiated", "power_cycle_failed">>
        /\ recoveryAttempts[c] # <<>>
        /\ recoveryAttempts[c][Len(recoveryAttempts[c])] =
              Attempt(now, "power_cycle")

(***************************************************************************)
(*              PROPERTIES OF THE MIDNIGHT FOLDER HELPER                   *)
(***************************************************************************)

\* C39: per camera and recorder context at most one midnight
\* folder-creation helper runs at any time, however often the archive
\* transcoder has exited and been started again by the retry loop.
C39_OneFolderHelper == folderHelpers <= 1

\* C37: a camera that stops producing segments and stays that way is
\* eventually given a failure_detected_at by a tick of the recovery
\* controller, whatever the time of day at which it stopped.
C37_SilenceIsDetected == (~producing) ~> (dDetectedAt # ZeroTime)

(***************************************************************************)
(*               PROPERTIES OF A RESTARTED RECORDER                        *)
(***************************************************************************)

C36_ShutdownCompletes == (shMain = "stopping") ~> (shMain = "complete")

(***************************************************************************)
(*                 PROPERTIES OF THE WEB UI'S SESSIONS                     *)
(***************************************************************************)

\* C31: with authentication enabled, the handler of a route other than
\* /login, /logout and /health runs only for a request whose session id
\* passed the check, which an id passes only while its session is stored
\* and not expired; every other request to such a route is redirected to
\* /login; /health is answered 200 OK whatever the cookie; and an id that a
\* logout destroyed or that has passed its expiry never passes the check
\* again.
C31_ProtectedRoutesNeedLiveSession ==
    [][\A r \in AuthRequests :
          /\ (reqPc[r] = "routed" /\ reqPc'[r] = "validated") =>
                /\ reqRoute[r] \notin PublicRoutes
                /\ sessions[reqCookie[r]] # NoSession
                /\ anow <= sessions[reqCookie[r]]
                /\ reqCookie[r] \notin retired
          /\ (reqPc[r] # "idle" /\ reqPc'[r] = "idle"
                 /\ reqRoute[r] \notin PublicRoutes) =>
                served' = IF reqPc[r] = "validated" THEN "handler"
                                 ELSE "redirect /login"
          /\ (reqPc[r] # "idle" /\ reqPc'[r] = "idle"
                 /\ reqRoute[r] = "/health") =>
                served' = "200 OK"]_vars

====
